---------------------------- MODULE Spec2Model ----------------------------
(***************************************************************************)
(* A model of the photomozaic engine.                                      *)
(*                                                                         *)
(*   Spec        the MosaicWorker of src/js/modules/image-processor.js:    *)
(*               its message handler, the staged generateMosaic run with   *)
(*               its cooperative pause/cancel checkpoints, and the         *)
(*               messages it posts.  Runs follow one another; pause,       *)
(*               resume and cancel may arrive whenever the worker is       *)
(*               suspended at an await.                                    *)
(*   SpecAssign  the tile assignment loop of generateMosaicGrid with the   *)
(*               two selection procedures, run to completion on one grid.  *)
(*   SpecApp     the worker composed with the main thread of               *)
(*               src/js/main.js: messages reach the worker only through    *)
(*               the click handlers of PhotoMosaicApp, which let a new     *)
(*               run start while a cancelled one is still unwinding.       *)
(***************************************************************************)
EXTENDS Integers, Sequences, FiniteSets, TLC

(***************************************************************************)
(* Bounds of the model.                                                    *)
(***************************************************************************)
\* generate_mosaic messages the worker receives in one behaviour
MaxRuns == 2
\* largest gridSize of a run of Spec (the grid has gridSize^2 cells)
MaxGrid == 2
\* largest gridSize of SpecAssign
MaxAssignGrid == 3
\* largest tile pool of SpecAssign
MaxTiles == 5
\* messages in flight from the main thread to the worker (SpecApp)
MaxInbox == 2
\* pause / resume / cancel messages posted to the worker in one behaviour
MaxControls == 3
\* milliseconds Date.now() advances in one behaviour of SpecClock
MaxTime == 5
\* largest maxSize of an LRUCache of SpecLRU
MaxLruSize == 2
\* distinct tiles drawn in one behaviour of SpecTileCache
MaxDrawnTiles == 102
\* largest ordinary gridSize handed to generateHighResolutionMosaic
MaxHiResGrid == 300
\* largest number of tile files of SpecTiles
MaxTileFiles == 61
\* viewer operations in one behaviour of SpecViewer
MaxViewerOps == 4
\* tiles of the pool of SpecSelect
SelectPool == 11

(***************************************************************************)
(* Program constants.                                                      *)
(***************************************************************************)
\* processTileImages: const memoryBatchSize = 30
MemoryBatchSize == 30
\* processTileImages: const batchSize = Math.min(12, tileFiles.length)
MaxParallel == 12
\* generateMosaicGrid: preview every 100 cells
PreviewEvery == 100
\* selectBestTile*: candidates = limitedCandidates.slice(0, 10)
TopCandidates == 10
\* selectBestTile*: maxUsage = baseMaxUsage + Math.ceil(tileCount / 20)
UsageSlackDivisor == 20
\* constructor: this.maxCacheSize = 100
maxCacheSize == 100
\* generateHighResolutionMosaic: let highResTileSize = 256
HighResTileSize == 256
\* generateHighResolutionMosaic: const maxCanvasSize = 32767
maxCanvasSize == 32767
\* processFileToImageData: canvas.width = 64 (and canvas.height)
ThumbnailSize == 64

VARIABLES
    \* ---- MosaicWorker fields (constructor, lines 200-225)
    isProcessing,
    isPaused,
    isCancelled,
    currentStage,
    stageProgress,
    totalProgress,
    \* ---- whether this.tileCache (line 208) holds no entry
    tileCacheEmpty,
    \* ---- one record per generateMosaic activation (its locals and position)
    run,
    \* ---- the messages the last step posted with self.postMessage, in order
    out,
    \* ---- history: a 'pause' was handled during a run and no 'resume' or
    \*      'cancel' since
    userPaused,
    \* ---- control messages the environment has posted so far
    controls,
    \* ---- main thread (PhotoMosaicApp): state.isProcessing, the pause button
    \*      text, and the messages posted to the worker and not yet handled
    appIsProcessing,
    pauseBtnText,
    inbox,
    lastClick,
    \* ---- main thread: the activations of handleGenerateClick, their tile
    \*      conversion and what they passed to updateProgressDisplay
    \*      (SpecGenerate)
    generation,
    \* ---- generateMosaicGrid locals of SpecAssign
    asg,
    \* ---- the components studied on their own, each in its specification:
    \*      the clock of a run (SpecClock), the application of a function to
    \*      drawn arguments (SpecCodec, SpecHiRes, SpecDistance, SpecTiles),
    \*      an LRUCache (SpecLRU), the worker's tileCache Map (SpecTileCache)
    \*      and an ImageViewer (SpecViewer)
    clock,
    call,
    lru,
    tileCache,
    viewer

workerVars == <<isProcessing, isPaused, isCancelled, currentStage,
                stageProgress, totalProgress, tileCacheEmpty, run, out,
                userPaused>>
envVars == <<controls>>
appVars == <<appIsProcessing, pauseBtnText, inbox, lastClick, generation>>
\* what a step of a run leaves alone
unitVars == <<clock, call, lru, tileCache, viewer>>
runFrame == <<controls, inbox, lastClick, generation, asg, unitVars>>
engineVars == <<workerVars, envVars, appVars, asg>>
vars == <<engineVars, unitVars>>

Runs == 1..MaxRuns

(***************************************************************************)
(* Exact fractions: the progress values are JavaScript doubles such as     *)
(* (i + 1) / cells * 100; they are kept here as reduced fractions.         *)
(***************************************************************************)
RECURSIVE Gcd(_, _)
Gcd(a, b) == IF b = 0 THEN a ELSE Gcd(b, a % b)

Frac(n, d) == LET g == Gcd(n, d) IN [n |-> n \div g, d |-> d \div g]

FracLeq(a, b) == a.n * b.d <= b.n * a.d

FracOfInt(k) == [n |-> k, d |-> 1]

Min(a, b) == IF a <= b THEN a ELSE b
Max(a, b) == IF a >= b THEN a ELSE b
CeilDiv(a, b) == (a + b - 1) \div b


(***************************************************************************)
(* Progress management: processingStages, setStage, updateStageProgress,   *)
(* updateTotalProgress.                                                    *)
(***************************************************************************)
\* Object.entries(this.processingStages), in insertion order
StageOrder == <<"LOADING_SOURCE", "LOADING_TILES", "ANALYZING_COLORS",
                "BUILDING_INDEX", "GENERATING_MOSAIC", "OPTIMIZING",
                "FINALIZING">>

processingStages ==
    [LOADING_SOURCE |-> 10, LOADING_TILES |-> 20, ANALYZING_COLORS |-> 15,
     BUILDING_INDEX |-> 10, GENERATING_MOSAIC |-> 40, OPTIMIZING |-> 3,
     FINALIZING |-> 2]

RECURSIVE CompletedWeight(_, _)
\* the weights added to completedWeight before the loop reaches `stage`
\* (all of them when no entry matches, as for currentStage = null)
CompletedWeight(stage, k) ==
    IF k > Len(StageOrder) THEN 0
    ELSE IF StageOrder[k] = stage THEN 0
    ELSE processingStages[StageOrder[k]] + CompletedWeight(stage, k + 1)

\* A faulty variant of updateTotalProgress whose loop counts the current
\* stage among the completed ones.  C35_TotalProgressIsWeightedSum must
\* tell it from the code.
updateTotalProgressNoBreak(stage, sp) ==
    LET weight == IF stage \in DOMAIN processingStages
                  THEN processingStages[stage] ELSE 0
        completedWeight == CompletedWeight(stage, 1) + weight
    IN Frac(completedWeight * 100 * sp.d + weight * sp.n, 100 * sp.d)

\* the totalProgress updateTotalProgress computes for a stage and a
\* stageProgress (a fraction, in percent)
updateTotalProgress(stage, sp) ==
    LET completedWeight == CompletedWeight(stage, 1)
        weight == IF stage \in DOMAIN processingStages
                  THEN processingStages[stage] ELSE 0
    IN Frac(completedWeight * 100 * sp.d + weight * sp.n, 100 * sp.d)

\* updateStageProgress: Math.max(0, Math.min(100, progress))
ClampProgress(p) ==
    IF p.n < 0 THEN FracOfInt(0)
    ELSE IF FracLeq(FracOfInt(100), p) THEN FracOfInt(100) ELSE p

(***************************************************************************)
(* Messages posted by the worker (sendMessage -> self.postMessage).  The   *)
(* field `run` records which activation of generateMosaic posted it (0 for *)
(* the acknowledgements of pauseProcessing / resumeProcessing).            *)
(***************************************************************************)
Post(type, r, p) == [type |-> type, run |-> r, progress |-> p]

sendProgress(r, total) == Post("progress", r, total)
sendComplete(r) == Post("complete", r, FracOfInt(0))
sendError(r) == Post("error", r, FracOfInt(0))
sendPreviewUpdate(r) == Post("preview", r, FracOfInt(0))

(***************************************************************************)
(* The inputs of a run: settings.gridSize and the tile files, of which     *)
(* those in `bad` carry no usable imageData (extractTileMetadata throws).  *)
(***************************************************************************)
TileFileSets ==
    { [n |-> 0, bad |-> {}],
      [n |-> 1, bad |-> {}],
      [n |-> MemoryBatchSize + 1, bad |-> {1}],
      [n |-> MemoryBatchSize + 1, bad |-> 1..(MemoryBatchSize + 1)] }

GenerateMessages ==
    { [type |-> "generate_mosaic", gridSize |-> g, files |-> f] :
        g \in 1..MaxGrid, f \in TileFileSets }

ControlMessages ==
    { [type |-> t, gridSize |-> 0, files |-> [n |-> 0, bad |-> {}]] :
        t \in {"pause", "resume", "cancel"} }

Cells(r) == run[r].gridSize * run[r].gridSize

\* createBatches(files, memoryBatchSize).length
createBatches(n) == CeilDiv(n, MemoryBatchSize)

\* the files of batch b (0-based): files.slice(i, i + batchSize)
BatchFiles(n, b) ==
    (b * MemoryBatchSize + 1)..Min(n, (b + 1) * MemoryBatchSize)

\* processTileBatchInParallel: one result per file of the batch, success
\* exactly for the files whose extraction does not throw
processTileBatchInParallel(files, b) ==
    Cardinality(BatchFiles(files.n, b) \ files.bad)

IdleRun ==
    [pc |-> "idle", waiting |-> FALSE, gridSize |-> 0,
     files |-> [n |-> 0, bad |-> {}], idx |-> 0, processedCount |-> 0,
     pool |-> 0, placed |-> 0,
     \* history of the run, read by the properties only
     complete |-> 0, error |-> 0, lastProgress |-> FracOfInt(0),
     monotone |-> TRUE, cancelSeen |-> FALSE, gridCancel |-> -1,
     tileCancelCheck |-> FALSE, batchesAfter |-> 0, ck |-> FALSE]

InProgress(r) == run[r].pc \notin {"idle", "done"}

RECURSIVE Observe(_, _, _)
\* the history fields of run r after it posted msgs
Observe(rec, r, msgs) ==
    IF msgs = <<>> THEN rec
    ELSE LET m == Head(msgs)
             next ==
               IF m.run # r THEN rec
               ELSE IF m.type = "progress" THEN
                   [rec EXCEPT
                      !.monotone = rec.monotone
                                   /\ FracLeq(rec.lastProgress, m.progress)
                                   /\ FracLeq(m.progress, FracOfInt(100)),
                      !.lastProgress = m.progress]
               ELSE IF m.type = "complete" THEN
                   [rec EXCEPT !.complete = rec.complete + 1]
               ELSE IF m.type = "error" THEN
                   [rec EXCEPT !.error = rec.error + 1]
               ELSE rec
         IN Observe(next, r, Tail(msgs))

(***************************************************************************)
(* The main thread's handleWorkerMessage (src/js/main.js, lines 586-609),  *)
(* applied to the messages of a step in the order they were posted.        *)
(***************************************************************************)
RECURSIVE handleWorkerMessage(_, _)
handleWorkerMessage(st, msgs) ==
    IF msgs = <<>> THEN st
    ELSE LET m == Head(msgs)
             next ==
               CASE m.type \in {"complete", "error"} ->
                        [st EXCEPT !.isProcessing = FALSE]
                 [] m.type = "paused" -> [st EXCEPT !.btn = "Resume"]
                 [] m.type = "resumed" -> [st EXCEPT !.btn = "Pause"]
                 [] OTHER -> st
         IN handleWorkerMessage(next, Tail(msgs))

\* the worker posts msgs and the main thread handles them
Deliver(msgs) ==
    LET st == handleWorkerMessage(
                  [isProcessing |-> appIsProcessing, btn |-> pauseBtnText],
                  msgs)
    IN /\ out' = msgs
       /\ appIsProcessing' = st.isProcessing
       /\ pauseBtnText' = st.btn

(***************************************************************************)
(* checkPauseCancel (lines 1145-1153): throws when isCancelled, otherwise  *)
(* polls while isPaused && !isCancelled, otherwise returns at once.        *)
(***************************************************************************)
checkPauseCancel ==
    IF isCancelled THEN "throw" ELSE IF isPaused THEN "wait" ELSE "go"

\* what cleanup (lines 1179-1184) leaves in the cache and in the stage and
\* progress fields
cleanupKeepingCache ==
    [tileCacheEmpty |-> tileCacheEmpty, currentStage |-> "null",
     totalProgress |-> FracOfInt(0), stageProgress |-> FracOfInt(0)]

cleanup ==
    [tileCacheEmpty |-> TRUE, currentStage |-> "null",
     totalProgress |-> FracOfInt(0), stageProgress |-> FracOfInt(0)]

\* the catch and finally blocks of generateMosaic (lines 297-304) followed
\* by cleanup (lines 1179-1184), after the step posted msgs and threw
Unwind(r, rec, msgs) ==
    LET posted == IF ~isCancelled THEN Append(msgs, sendError(r)) ELSE msgs
    IN /\ run' = [run EXCEPT ![r] =
                    Observe([rec EXCEPT !.pc = "done", !.waiting = FALSE],
                            r, posted)]
       /\ Deliver(posted)
       /\ isProcessing' = FALSE
       /\ tileCacheEmpty' = cleanup.tileCacheEmpty
       /\ currentStage' = cleanup.currentStage
       /\ totalProgress' = cleanup.totalProgress
       /\ stageProgress' = cleanup.stageProgress
       /\ UNCHANGED <<isPaused, isCancelled, userPaused, runFrame>>

\* setStage(stageName) by run r, whose record becomes rec
setStage(r, rec, stageName) ==
    LET total == updateTotalProgress(stageName, FracOfInt(0))
        msgs == <<sendProgress(r, total)>>
    IN /\ currentStage' = stageName
       /\ stageProgress' = FracOfInt(0)
       /\ totalProgress' = total
       /\ Deliver(msgs)
       /\ run' = [run EXCEPT ![r] = Observe(rec, r, msgs)]
       /\ UNCHANGED <<isProcessing, isPaused, isCancelled, tileCacheEmpty,
                      userPaused, runFrame>>

\* updateStageProgress(p) by run r, then the messages `more`, then
\* `await this.checkPauseCancel()`; rec is the record of the run when the
\* check returns.  swallow: the check runs inside the try/catch of
\* processTileImages (lines 375-408), whose catch logs the error and lets
\* the loop go on.
ProgressThenCheck(r, rec, p, more, swallow) ==
    LET sp == ClampProgress(p)
        total == updateTotalProgress(currentStage, sp)
        msgs == <<sendProgress(r, total)>> \o more
        outcome == checkPauseCancel
        seen == [rec EXCEPT !.ck = rec.ck \/ userPaused]
    IN IF outcome = "throw" /\ ~swallow
       THEN Unwind(r, seen, msgs)
       ELSE /\ stageProgress' = sp
            /\ totalProgress' = total
            /\ Deliver(msgs)
            /\ run' = [run EXCEPT ![r] =
                         Observe([seen EXCEPT
                                    !.waiting = (outcome = "wait"),
                                    !.tileCancelCheck =
                                        seen.tileCancelCheck
                                        \/ (swallow /\ outcome = "throw")],
                                 r, msgs)]
            /\ tileCacheEmpty' = (tileCacheEmpty /\ rec.placed = run[r].placed)
            /\ UNCHANGED <<isProcessing, isPaused, isCancelled,
                           currentStage, userPaused, runFrame>>

\* updateStageProgress(100) by run r with no checkpoint after it
ProgressOnly(r, rec, more) ==
    LET sp == FracOfInt(100)
        total == updateTotalProgress(currentStage, sp)
        msgs == <<sendProgress(r, total)>> \o more
    IN /\ stageProgress' = sp
       /\ totalProgress' = total
       /\ Deliver(msgs)
       /\ run' = [run EXCEPT ![r] = Observe(rec, r, msgs)]
       /\ UNCHANGED <<isProcessing, isPaused, isCancelled, currentStage,
                      tileCacheEmpty, userPaused, runFrame>>

(***************************************************************************)
(* generateMosaic (lines 254-305), one action per stretch of code between  *)
(* two awaits at which the shared flags are read or written.               *)
(***************************************************************************)
\* handleMessage 'generate_mosaic': the flag reset of generateMosaic and
\* setStage('LOADING_SOURCE'), in activation r
generateMosaic(r, m) ==
    /\ run[r].pc = "idle"
    /\ isProcessing' = TRUE
    /\ isPaused' = FALSE
    /\ isCancelled' = FALSE
    /\ LET rec == [IdleRun EXCEPT !.pc = "source", !.gridSize = m.gridSize,
                                  !.files = m.files]
           total == updateTotalProgress("LOADING_SOURCE", FracOfInt(0))
           msgs == <<sendProgress(r, total)>>
       IN /\ currentStage' = "LOADING_SOURCE"
          /\ stageProgress' = FracOfInt(0)
          /\ totalProgress' = total
          /\ Deliver(msgs)
          /\ run' = [run EXCEPT ![r] = Observe(rec, r, msgs)]
    /\ userPaused' = (userPaused /\ \E q \in Runs : InProgress(q))
    /\ UNCHANGED tileCacheEmpty

\* processSourceImage (lines 326-350): one cell, its progress, the check
SourceCell(r) ==
    /\ run[r].pc = "source" /\ ~run[r].waiting
    /\ run[r].idx < Cells(r)
    /\ ProgressThenCheck(r, [run[r] EXCEPT !.idx = run[r].idx + 1],
                         Frac(run[r].idx * 100, Cells(r)), <<>>, FALSE)

\* processSourceImage returns; setStage('LOADING_TILES')
SourceDone(r) ==
    /\ run[r].pc = "source" /\ ~run[r].waiting
    /\ run[r].idx = Cells(r)
    /\ setStage(r, [run[r] EXCEPT !.pc = "tiles", !.idx = 0],
                "LOADING_TILES")

\* processTileImages (lines 371-409): one memory batch
TileBatch(r) ==
    /\ run[r].pc = "tiles" /\ ~run[r].waiting
    /\ run[r].idx < createBatches(run[r].files.n)
    /\ LET ok == processTileBatchInParallel(run[r].files, run[r].idx)
           count == run[r].processedCount + ok
       IN ProgressThenCheck(
              r,
              [run[r] EXCEPT !.idx = run[r].idx + 1,
                             !.processedCount = count,
                             !.pool = count,
                             !.batchesAfter =
                                 run[r].batchesAfter
                                 + (IF run[r].tileCancelCheck THEN 1 ELSE 0)],
              Frac(count * 100, run[r].files.n), <<>>, TRUE)

\* processTileImages returns tileMetadata; setStage('ANALYZING_COLORS')
TilesDone(r) ==
    /\ run[r].pc = "tiles" /\ ~run[r].waiting
    /\ run[r].idx = createBatches(run[r].files.n)
    /\ setStage(r, [run[r] EXCEPT !.pc = "analyze", !.idx = 0],
                "ANALYZING_COLORS")

\* analyzeColors (lines 493-503): one cell
AnalyzeCell(r) ==
    /\ run[r].pc = "analyze" /\ ~run[r].waiting
    /\ run[r].idx < Cells(r)
    /\ ProgressThenCheck(r, [run[r] EXCEPT !.idx = run[r].idx + 1],
                         Frac((run[r].idx + 1) * 100, Cells(r)), <<>>, FALSE)

\* analyzeColors returns; setStage('BUILDING_INDEX')
AnalyzeDone(r) ==
    /\ run[r].pc = "analyze" /\ ~run[r].waiting
    /\ run[r].idx = Cells(r)
    /\ setStage(r, [run[r] EXCEPT !.pc = "index", !.idx = 0],
                "BUILDING_INDEX")

\* buildSearchIndex (lines 509-543)
BuildIndex(r) ==
    /\ run[r].pc = "index"
    /\ ProgressOnly(r, [run[r] EXCEPT !.pc = "indexed"], <<>>)

\* setStage('GENERATING_MOSAIC')
GridBegin(r) ==
    /\ run[r].pc = "indexed"
    /\ setStage(r, [run[r] EXCEPT !.pc = "grid", !.idx = 0],
                "GENERATING_MOSAIC")

\* generateMosaicGrid (lines 579-652): one cell.  With an empty pool the
\* selection reads bestCandidate.tile of undefined and throws a TypeError.
GridCell(r) ==
    /\ run[r].pc = "grid" /\ ~run[r].waiting
    /\ run[r].idx < Cells(r)
    /\ IF run[r].pool = 0
       THEN Unwind(r, run[r], <<>>)
       ELSE ProgressThenCheck(
                r,
                [run[r] EXCEPT !.idx = run[r].idx + 1,
                               !.placed = run[r].placed + 1],
                Frac((run[r].idx + 1) * 100, Cells(r)),
                IF run[r].idx % PreviewEvery = 0
                THEN <<sendPreviewUpdate(r)>> ELSE <<>>,
                FALSE)

\* generateMosaicGrid returns; setStage('OPTIMIZING')
GridDone(r) ==
    /\ run[r].pc = "grid" /\ ~run[r].waiting
    /\ run[r].idx = Cells(r)
    /\ setStage(r, [run[r] EXCEPT !.pc = "optimize", !.idx = 0],
                "OPTIMIZING")

\* optimizeResult (lines 863-871)
optimizeResult(r) ==
    /\ run[r].pc = "optimize"
    /\ ProgressOnly(r, [run[r] EXCEPT !.pc = "optimized"], <<>>)

\* setStage('FINALIZING')
FinalizeBegin(r) ==
    /\ run[r].pc = "optimized"
    /\ setStage(r, [run[r] EXCEPT !.pc = "finalize"], "FINALIZING")

\* finalizeResult (lines 892-912) after its awaits, sendComplete, and the
\* finally block with cleanup
finalizeResult(r) ==
    /\ run[r].pc = "finalize"
    /\ LET total == updateTotalProgress(currentStage, FracOfInt(100))
           msgs == <<sendProgress(r, total), sendComplete(r)>>
       IN /\ Deliver(msgs)
          /\ run' = [run EXCEPT ![r] =
                       Observe([run[r] EXCEPT !.pc = "done"], r, msgs)]
    /\ isProcessing' = FALSE
    /\ tileCacheEmpty' = cleanup.tileCacheEmpty
    /\ currentStage' = cleanup.currentStage
    /\ totalProgress' = cleanup.totalProgress
    /\ stageProgress' = cleanup.stageProgress
    /\ UNCHANGED <<isPaused, isCancelled, userPaused, runFrame>>

\* A faulty variant of PollPause: the loop is only left by a cancel.
\* C33_ResumeLeadsToTerminal must tell it from the code.
PollPauseUntilCancel(r) ==
    /\ run[r].waiting
    /\ isCancelled
    /\ run' = [run EXCEPT ![r].waiting = FALSE]
    /\ Deliver(<<>>)
    /\ UNCHANGED <<isProcessing, isPaused, isCancelled, currentStage,
                   stageProgress, totalProgress, tileCacheEmpty, userPaused,
                   runFrame>>

\* the polling loop of checkPauseCancel: a timer fires and the loop
\* condition isPaused && !isCancelled no longer holds
PollPause(r) ==
    /\ run[r].waiting
    /\ ~(isPaused /\ ~isCancelled)
    /\ run' = [run EXCEPT ![r].waiting = FALSE]
    /\ Deliver(<<>>)
    /\ UNCHANGED <<isProcessing, isPaused, isCancelled, currentStage,
                   stageProgress, totalProgress, tileCacheEmpty, userPaused,
                   runFrame>>

RunStep(r) ==
    \/ SourceCell(r) \/ SourceDone(r)
    \/ TileBatch(r) \/ TilesDone(r)
    \/ AnalyzeCell(r) \/ AnalyzeDone(r)
    \/ BuildIndex(r) \/ GridBegin(r)
    \/ GridCell(r) \/ GridDone(r)
    \/ optimizeResult(r) \/ FinalizeBegin(r) \/ finalizeResult(r)
    \/ PollPause(r)

(***************************************************************************)
(* The control methods and handleMessage (lines 228-251, 1155-1168).       *)
(***************************************************************************)
\* the history of every run after a control message was handled
Noted(type) ==
    [r \in Runs |->
        IF ~InProgress(r) THEN run[r]
        ELSE [run[r] EXCEPT
                !.ck = FALSE,
                !.cancelSeen = run[r].cancelSeen \/ type = "cancel",
                !.gridCancel =
                    IF type = "cancel" /\ run[r].pc = "grid"
                       /\ run[r].gridCancel = -1
                    THEN run[r].placed ELSE run[r].gridCancel]]

pauseProcessing ==
    /\ isPaused' = TRUE
    /\ Deliver(<<Post("paused", 0, FracOfInt(0))>>)
    /\ userPaused' = \E r \in Runs : InProgress(r)
    /\ run' = Noted("pause")
    /\ UNCHANGED <<isProcessing, isCancelled, currentStage, stageProgress,
                   totalProgress, tileCacheEmpty>>

resumeProcessing ==
    /\ isPaused' = FALSE
    /\ Deliver(<<Post("resumed", 0, FracOfInt(0))>>)
    /\ userPaused' = FALSE
    /\ run' = Noted("resume")
    /\ UNCHANGED <<isProcessing, isCancelled, currentStage, stageProgress,
                   totalProgress, tileCacheEmpty>>

cancelProcessing ==
    /\ isCancelled' = TRUE
    /\ isPaused' = FALSE
    /\ Deliver(<<>>)
    /\ userPaused' = FALSE
    /\ run' = Noted("cancel")
    /\ UNCHANGED <<isProcessing, currentStage, stageProgress, totalProgress,
                   tileCacheEmpty>>

\* the activation a generate_mosaic message starts
FreeRun == CHOOSE r \in Runs : run[r].pc = "idle" /\ \A q \in 1..(r - 1) : run[q].pc # "idle"

handleMessage(m) ==
    CASE m.type = "generate_mosaic" ->
            /\ \E r \in Runs : run[r].pc = "idle"
            /\ generateMosaic(FreeRun, m)
      [] m.type = "pause" -> pauseProcessing
      [] m.type = "resume" -> resumeProcessing
      [] m.type = "cancel" -> cancelProcessing

(***************************************************************************)
(* Spec: the worker, with runs that follow one another.  generate_mosaic   *)
(* is posted only when no run is in progress (handleGenerateClick returns  *)
(* at once while state.isProcessing); pause, resume and cancel may be      *)
(* handled at every await of a run and while the worker is idle.           *)
(*                                                                         *)
(* An await whose promise is already settled resumes in a microtask,       *)
(* before any queued message event; the model does not tell such awaits    *)
(* from those that wait for a timer or an encoder (setTimeout,             *)
(* convertToBlob, FileReader) and lets messages in at each of them.        *)
(***************************************************************************)
InitWorker ==
    /\ isProcessing = FALSE
    /\ isPaused = FALSE
    /\ isCancelled = FALSE
    /\ currentStage = "null"
    /\ stageProgress = FracOfInt(0)
    /\ totalProgress = FracOfInt(0)
    /\ tileCacheEmpty = TRUE
    /\ run = [r \in Runs |-> IdleRun]
    /\ out = <<>>
    /\ userPaused = FALSE

InitEnv == controls = 0

InitAppThread ==
    /\ appIsProcessing = FALSE
    /\ pauseBtnText = "Pause"
    /\ inbox = <<>>
    /\ lastClick = [control |-> "none", paused |-> FALSE, posted |-> "none"]

InitApp ==
    /\ InitAppThread
    /\ generation = [phase |-> "off"]

InitAsgIdle == asg = [phase |-> "off"]

\* a component that is not part of the specification at hand
ClockOff == clock = [phase |-> "off"]
CallOff == call = [phase |-> "off"]
LruOff == lru = [phase |-> "off"]
TileCacheOff == tileCache = [phase |-> "off"]
ViewerOff == viewer = [phase |-> "off"]
UnitsOff == ClockOff /\ CallOff /\ LruOff /\ TileCacheOff /\ ViewerOff

\* the engine before the first message, for the specifications of one
\* component
InitEngineIdle == InitWorker /\ InitEnv /\ InitApp /\ InitAsgIdle

Init == InitEngineIdle /\ UnitsOff

ReceiveGenerate ==
    /\ \A r \in Runs : ~InProgress(r)
    /\ \E m \in GenerateMessages : handleMessage(m)
    /\ UNCHANGED runFrame

ReceiveControl ==
    /\ controls < MaxControls
    /\ controls' = controls + 1
    /\ \E m \in ControlMessages : handleMessage(m)
    /\ UNCHANGED <<inbox, lastClick, generation, asg, unitVars>>

Continue == \E r \in Runs : RunStep(r)

Next == ReceiveGenerate \/ ReceiveControl \/ Continue

Spec == Init /\ [][Next]_vars

(***************************************************************************)
(* Properties of the worker.                                               *)
(***************************************************************************)
\* C1: every run that has ended posted exactly one terminal message
\* (complete, a notification of the cancellation, or error).  sendMessage
\* is never called with a cancellation notification, so the terminal
\* messages of a run are its complete and error messages.
C1_ExactlyOneTerminal ==
    \A r \in Runs :
        run[r].pc = "done" => run[r].complete + run[r].error = 1

\* C2: a run during which a cancel was handled never posts complete
C2_NoCompleteAfterCancel ==
    \A r \in Runs : run[r].cancelSeen => run[r].complete = 0

\* C6: once a cancel was handled while a run was in GENERATING_MOSAIC, the
\* run assigns and draws at most one further cell
C6_OneCellAfterCancel ==
    \A r \in Runs :
        run[r].gridCancel >= 0 => run[r].placed - run[r].gridCancel <= 1

C8_PausedRunHolds ==
    [][ (userPaused /\ userPaused') =>
            \A r \in Runs :
                /\ run'[r].complete = run[r].complete
                /\ (run[r].ck /\ InProgress(r)) =>
                       run'[r].placed = run[r].placed ]_vars

\* C10: the totalProgress values of the progress messages of one run never
\* decrease and stay within 0..100
C10_ProgressMonotone ==
    \A r \in Runs : run[r].monotone

(***************************************************************************)
(* Colour arithmetic of MosaicWorker.  A colour channel is carried in      *)
(* units of 51 (0..5 for 0, 51, ..., 255).  rgbToLab divides by 255 and    *)
(* multiplies by 100; its values are kept here 50 times larger, which      *)
(* makes them integers and leaves every comparison as it is.               *)
(***************************************************************************)
\* rgbToLab (lines 980-996): l, a, b each times 50
rgbToLab(rgb) ==
    [l |-> 299 * rgb.r + 587 * rgb.g + 114 * rgb.b,
     a |-> 500 * (rgb.r - rgb.g),
     b |-> 500 * (rgb.g - rgb.b)]

Abs(v) == IF v < 0 THEN -v ELSE v

\* calculateColorDistance (lines 998-1010).  Method 'lab' yields the square
\* of the Euclidean distance (its callers only order and compare
\* distances, and the square root is monotone); every other method yields
\* |deltaL|.
calculateColorDistance(lab1, lab2, method) ==
    IF method = "lab"
    THEN LET deltaL == lab1.l - lab2.l
             deltaA == lab1.a - lab2.a
             deltaB == lab1.b - lab2.b
         IN deltaL * deltaL + deltaA * deltaA + deltaB * deltaB
    ELSE Abs(lab1.l - lab2.l)

(***************************************************************************)
(* Tile selection (lines 664-689 and 714-837).  A candidate is a record    *)
(* [tile, distance, usage] with tile an index of tileMetadata.  A          *)
(* selection yields the set of tiles Math.random() can make it return;     *)
(* the empty set stands for the TypeError of reading bestCandidate.tile    *)
(* when there is no candidate.                                             *)
(***************************************************************************)
\* Array.prototype.sort((a, b) => a.distance - b.distance): stable
SortByDistance(c) ==
    LET n == Len(c)
        rank(j) == Cardinality({ k \in 1..n :
                                   \/ c[k].distance < c[j].distance
                                   \/ (c[k].distance = c[j].distance /\ k < j) })
    IN [p \in 1..n |-> c[CHOOSE j \in 1..n : rank(j) = p - 1]]

\* Array.prototype.slice(0, k)
Slice(c, k) == SubSeq(c, 1, Min(k, Len(c)))

\* Math.min(...c.map(x => x.usage)) of a non-empty list
MinUsage(c) ==
    CHOOSE u \in { c[k].usage : k \in 1..Len(c) } :
        \A k \in 1..Len(c) : u <= c[k].usage

\* A faulty variant of MapCandidates that takes every tile as unused.
\* C25_OverusedOnlyWhenSaturated must tell it from the code.
MapCandidatesUnused(cell, tileMetadata, usageCount, idxs, settings) ==
    [p \in 1..Len(idxs) |->
        [tile |-> idxs[p],
         distance |-> calculateColorDistance(
                          cell.lab,
                          rgbToLab(tileMetadata[idxs[p]].averageColor),
                          settings.colorMatching),
         usage |-> 0]]

\* tileMetadata.map(tile => ({tile, distance, usage})) over the tiles at
\* the indices idxs, in that order
MapCandidates(cell, tileMetadata, usageCount, idxs, settings) ==
    [p \in 1..Len(idxs) |->
        [tile |-> idxs[p],
         distance |-> calculateColorDistance(
                          cell.lab,
                          rgbToLab(tileMetadata[idxs[p]].averageColor),
                          settings.colorMatching),
         usage |-> usageCount[tileMetadata[idxs[p]].filename]]]

\* baseMaxUsage + Math.ceil(tileCount / 20), for tileCount > 0
MaxUsageOf(settings, tileCount) ==
    Max(1, CeilDiv(settings.gridSize * settings.gridSize, tileCount))
    + CeilDiv(tileCount, UsageSlackDivisor)

\* limitedCandidates.slice(0, 10), or the candidates of minimum usage
\* when every candidate has reached maxUsage
RestrictCandidates(allCandidates, maxUsage) ==
    LET underLimit(c) == c.usage < maxUsage
        limitedCandidates == SelectSeq(allCandidates, underLimit)
    IN IF Len(limitedCandidates) > 0
       THEN Slice(limitedCandidates, TopCandidates)
       ELSE IF allCandidates = <<>> THEN <<>>
       ELSE LET minUsage == MinUsage(allCandidates)
                atMin(c) == c.usage = minUsage
            IN Slice(SelectSeq(allCandidates, atMin), TopCandidates)

\* A faulty variant of PickBest that draws among all the candidates of
\* least usage.  C26_LeastUsedAmongClosest must tell it from the code.
PickAmongLeastUsed(candidates, tenths) ==
    IF candidates = <<>> THEN {}
    ELSE LET minUsageInCandidates == MinUsage(candidates)
             atMin(c) == c.usage = minUsageInCandidates
             bestUsageCandidates == SelectSeq(candidates, atMin)
         IN { bestUsageCandidates[k].tile :
                k \in 1..Len(bestUsageCandidates) }

\* the choice among the candidates of least usage: the only one, or any
\* of the first max(1, ceil(length * tenths / 10)) by distance
PickBest(candidates, tenths) ==
    IF candidates = <<>> THEN {}
    ELSE LET minUsageInCandidates == MinUsage(candidates)
             atMin(c) == c.usage = minUsageInCandidates
             bestUsageCandidates == SelectSeq(candidates, atMin)
         IN IF Len(bestUsageCandidates) = 1
            THEN { bestUsageCandidates[1].tile }
            ELSE LET sortedByDistance == SortByDistance(bestUsageCandidates)
                     topCandidatesCount ==
                         Max(1, CeilDiv(Len(sortedByDistance) * tenths, 10))
                     topCandidates ==
                         Slice(sortedByDistance, topCandidatesCount)
                 IN { topCandidates[k].tile : k \in 1..Len(topCandidates) }

\* the indices of tileMetadata, in order
Indices(tileMetadata) == [k \in 1..Len(tileMetadata) |-> k]

\* A faulty variant of selectBestTile that returns the closest tile
\* whatever its usage.  C27_UsageWithinMaxUsage must tell it from the code.
selectClosestTile(cell, tileMetadata, usageCount, settings) ==
    IF Len(tileMetadata) = 0 THEN {}
    ELSE LET allCandidates ==
                 SortByDistance(MapCandidates(cell, tileMetadata, usageCount,
                                              Indices(tileMetadata), settings))
         IN { allCandidates[1].tile }

\* selectBestTile (lines 778-837)
selectBestTile(cell, tileMetadata, usageCount, settings) ==
    IF Len(tileMetadata) = 0 THEN {}
    ELSE LET allCandidates ==
                 SortByDistance(MapCandidates(cell, tileMetadata, usageCount,
                                              Indices(tileMetadata), settings))
             maxUsage == MaxUsageOf(settings, Len(tileMetadata))
         IN PickBest(RestrictCandidates(allCandidates, maxUsage), 3)

\* the tiles that pass .filter(tile => !excludedTileNames.has(tile.filename))
NotExcluded(tileMetadata, neighborTiles) ==
    LET excludedTileNames == { neighborTiles[k] : k \in 1..Len(neighborTiles) }
        free(k) == tileMetadata[k].filename \notin excludedTileNames
    IN SelectSeq(Indices(tileMetadata), free)

\* A faulty variant of selectBestTileWithNeighborConstraint: it also gives
\* the constraint up when every tile that is not a neighbour's has reached
\* maxUsage.  C5_FallbackOnlyWhenAllExcluded must tell it from the code.
selectBestTileRelaxedWhenSaturated(cell, tileMetadata, usageCount, neighborTiles, settings) ==
    LET kept == NotExcluded(tileMetadata, neighborTiles)
        allCandidates ==
            SortByDistance(MapCandidates(cell, tileMetadata, usageCount,
                                         kept, settings))
        maxUsage == MaxUsageOf(settings, Len(tileMetadata))
        underLimit(c) == c.usage < maxUsage
    IN IF SelectSeq(allCandidates, underLimit) = <<>>
       THEN selectBestTile(cell, tileMetadata, usageCount, settings)
       ELSE PickBest(RestrictCandidates(allCandidates, maxUsage), 4)

\* selectBestTileWithNeighborConstraint (lines 714-775)
selectBestTileWithNeighborConstraint(cell, tileMetadata, usageCount, neighborTiles, settings) ==
    LET kept == NotExcluded(tileMetadata, neighborTiles)
        allCandidates ==
            SortByDistance(MapCandidates(cell, tileMetadata, usageCount,
                                         kept, settings))
    IN IF Len(allCandidates) = 0
       THEN selectBestTile(cell, tileMetadata, usageCount, settings)
       ELSE PickBest(RestrictCandidates(
                         allCandidates,
                         MaxUsageOf(settings, Len(tileMetadata))), 4)

\* A faulty variant of getNeighborTiles that looks left and right only.
\* C4_NoAdjacentDuplicates must tell it from the code.
getNeighborTilesInRow(x, y, tileMap, gridSize) ==
    LET directions == << <<-1, 0>>, <<1, 0>> >>
        placedAt(d) ==
            /\ x + d[1] >= 0 /\ x + d[1] < gridSize
            /\ tileMap[<<x + d[1], y>>] # 0
        hits == SelectSeq(directions, placedAt)
    IN [k \in 1..Len(hits) |-> tileMap[<<x + hits[k][1], y>>]]

\* getNeighborTiles (lines 664-689): the tiles already placed left, right,
\* above and below (x, y), in that order; 0 stands for an absent entry
getNeighborTiles(x, y, tileMap, gridSize) ==
    LET directions == << <<-1, 0>>, <<1, 0>>, <<0, -1>>, <<0, 1>> >>
        placedAt(d) ==
            LET nx == x + d[1]
                ny == y + d[2]
            IN /\ nx >= 0 /\ nx < gridSize /\ ny >= 0 /\ ny < gridSize
               /\ tileMap[<<nx, ny>>] # 0
        tileAt(d) == tileMap[<<x + d[1], y + d[2]>>]
        hits == SelectSeq(directions, placedAt)
    IN [k \in 1..Len(hits) |-> tileAt(hits[k])]

(***************************************************************************)
(* SpecAssign: the assignment loop of generateMosaicGrid, cell by cell,    *)
(* on concrete pools.  asg holds the arguments of generateMosaicGrid       *)
(* (settings, tileMetadata, the source image), its locals (i, tileMap,     *)
(* tileUsageCount, result.tiles) and, as history, the neighbour list and   *)
(* the saturation of the last assigned cell.                               *)
(***************************************************************************)
\* file names of the pool; 0 is no name
Names == 1..MaxTiles

\* average colours of the tiles of a pool, by position (red, green, blue,
\* white, black, grey, yellow, ...)
Palette(k) ==
    LET c == << [r |-> 5, g |-> 0, b |-> 0], [r |-> 0, g |-> 5, b |-> 0],
                [r |-> 0, g |-> 0, b |-> 5], [r |-> 5, g |-> 5, b |-> 5],
                [r |-> 0, g |-> 0, b |-> 0], [r |-> 3, g |-> 3, b |-> 3],
                [r |-> 5, g |-> 5, b |-> 0], [r |-> 0, g |-> 5, b |-> 5] >>
    IN c[((k - 1) % Len(c)) + 1]

\* file.name of the k-th tile: all different, or two files per name
\* (File.name is the base name of the file)
FileName(naming, k) ==
    IF naming = "distinct" THEN k ELSE (k + 1) \div 2

\* tileMetadata of a pool of n tiles (extractTileMetadata, lines 463-482)
extractTileMetadata(n, naming) ==
    [k \in 1..n |-> [filename |-> FileName(naming, k),
                     averageColor |-> Palette(k)]]

\* calculateCellColor of cell (x, y) of a source image: the image is
\* uniform, striped by column, striped by row, or a checkerboard of a
\* dark and a light colour
calculateCellColor(image, x, y) ==
    IF (image.a * x + image.b * y) % 2 = 0
    THEN [r |-> 0, g |-> 1, b |-> 4]
    ELSE [r |-> 5, g |-> 4, b |-> 2]

SourceImages == [a : {0, 1}, b : {0, 1}]

GridPositions(gridSize) == (0..(gridSize - 1)) \X (0..(gridSize - 1))

\* A faulty variant of CellAt that never leaves the first row.
\* C3_EveryCellOnce must tell it from the code.
CellAtFirstRow(image, gridSize, i) ==
    [x |-> i % gridSize, y |-> 0,
     lab |-> rgbToLab(calculateCellColor(image, i % gridSize, 0))]

\* A faulty variant of CellAt that walks the grid column by column.
\* C24_RowMajorOrder must tell it from the code.
CellAtColumnMajor(image, gridSize, i) ==
    [x |-> i \div gridSize, y |-> i % gridSize,
     lab |-> rgbToLab(calculateCellColor(image, i \div gridSize,
                                         i % gridSize))]

\* sourceData.cells[i] of processSourceImage (lines 326-341): y outer,
\* x inner
CellAt(image, gridSize, i) ==
    LET x == i % gridSize
        y == i \div gridSize
    IN [x |-> x, y |-> y, lab |-> rgbToLab(calculateCellColor(image, x, y))]

\* the state at the head of the loop of generateMosaicGrid (lines 546-578)
InitAssign ==
    /\ InitWorker /\ InitEnv /\ InitApp /\ UnitsOff
    /\ \E gridSize \in 1..MaxAssignGrid, n \in 0..MaxTiles,
          naming \in {"distinct", "paired"},
          neighborDiversity \in {"enabled", "disabled"},
          colorMatching \in {"lab", "rgb"}, image \in SourceImages :
         asg = [phase |-> "run",
                settings |-> [gridSize |-> gridSize,
                              neighborDiversity |-> neighborDiversity,
                              colorMatching |-> colorMatching],
                tileMetadata |-> extractTileMetadata(n, naming),
                image |-> image,
                i |-> 0,
                tileMap |-> [p \in GridPositions(gridSize) |-> 0],
                tileUsageCount |-> [f \in Names |-> 0],
                tiles |-> <<>>,
                neighborTiles |-> <<>>,
                saturated |-> FALSE]

\* every tile that is not a neighbour's has reached maxUsage
Saturated(tileMetadata, usageCount, neighborTiles, settings) ==
    LET kept == NotExcluded(tileMetadata, neighborTiles)
    IN /\ kept # <<>>
       /\ \A p \in 1..Len(kept) :
            usageCount[tileMetadata[kept[p]].filename]
                >= MaxUsageOf(settings, Len(tileMetadata))

\* A faulty variant of selectionThrows: the loop leaves the cell without a
\* tile and goes on.  C30_EmptyPoolEndsInError must tell it from the code.
selectionSkipsCell(a) ==
    [a EXCEPT !.i = @ + 1]

\* the selection finds no candidate: `bestCandidate.tile` of selectBestTile
\* (line 837) reads a property of undefined, the TypeError leaves the loop
\* and generateMosaicGrid
selectionThrows(a) ==
    [a EXCEPT !.phase = "error"]

\* one pass of the loop of generateMosaicGrid (lines 579-652): select,
\* count, record; a selection that throws ends the loop
AssignCell ==
    /\ asg.phase = "run"
    /\ asg.i < asg.settings.gridSize * asg.settings.gridSize
    /\ LET gridSize == asg.settings.gridSize
           cell == CellAt(asg.image, gridSize, asg.i)
           neighborTiles ==
               IF asg.settings.neighborDiversity = "enabled"
               THEN getNeighborTiles(cell.x, cell.y, asg.tileMap, gridSize)
               ELSE <<>>
           selectable ==
               IF asg.settings.neighborDiversity = "enabled"
               THEN selectBestTileWithNeighborConstraint(
                        cell, asg.tileMetadata, asg.tileUsageCount,
                        neighborTiles, asg.settings)
               ELSE selectBestTile(cell, asg.tileMetadata,
                                   asg.tileUsageCount, asg.settings)
       IN IF selectable = {}
          THEN asg' = selectionThrows(asg)
          ELSE \E t \in selectable :
                 LET selectedTile == asg.tileMetadata[t]
                 IN asg' = [asg EXCEPT
                       !.tileUsageCount[selectedTile.filename] = @ + 1,
                       !.tileMap[<<cell.x, cell.y>>] = selectedTile.filename,
                       !.tiles = Append(@, [x |-> cell.x, y |-> cell.y,
                                            tile |-> selectedTile.filename]),
                       !.i = @ + 1,
                       !.neighborTiles = neighborTiles,
                       !.saturated =
                           Saturated(asg.tileMetadata, asg.tileUsageCount,
                                     neighborTiles, asg.settings)]
    /\ UNCHANGED <<workerVars, envVars, appVars, unitVars>>

\* generateMosaicGrid returns result (line 660)
AssignDone ==
    /\ asg.phase = "run"
    /\ asg.i = asg.settings.gridSize * asg.settings.gridSize
    /\ asg' = [asg EXCEPT !.phase = "done"]
    /\ UNCHANGED <<workerVars, envVars, appVars, unitVars>>

NextAssign == AssignCell \/ AssignDone

SpecAssign == InitAssign /\ [][NextAssign]_vars

(***************************************************************************)
(* Properties of the assignment (SpecAssign).                              *)
(***************************************************************************)
\* the sum of f over the set S
RECURSIVE SumOver(_, _)
SumOver(f, S) ==
    IF S = {} THEN 0
    ELSE LET e == CHOOSE e \in S : TRUE IN f[e] + SumOver(f, S \ {e})

\* the cells (x, y) and (u, v) are horizontally or vertically adjacent
Adjacent(p, q) == Abs(p[1] - q[1]) + Abs(p[2] - q[2]) = 1

\* the file names of the pool are pairwise distinct
DistinctNames(tileMetadata) ==
    \A j, k \in 1..Len(tileMetadata) :
        j # k => tileMetadata[j].filename # tileMetadata[k].filename

\* C3: when generateMosaicGrid has returned its result, result.tiles holds
\* every cell (x, y) of the grid exactly once and the counts of
\* tileUsageCount sum to gridSize * gridSize.
C3_EveryCellOnce ==
    asg.phase = "done" =>
        /\ \A p \in GridPositions(asg.settings.gridSize) :
             Cardinality({ k \in 1..Len(asg.tiles) :
                             <<asg.tiles[k].x, asg.tiles[k].y>> = p }) = 1
        /\ Len(asg.tiles) = asg.settings.gridSize * asg.settings.gridSize
        /\ SumOver(asg.tileUsageCount, Names)
               = asg.settings.gridSize * asg.settings.gridSize

\* a result for the largest grid, from a pool in which names repeat
C3_Witness ==
    /\ asg.phase = "done"
    /\ asg.settings.gridSize = MaxAssignGrid
    /\ Len(asg.tileMetadata) > 1
    /\ ~DistinctNames(asg.tileMetadata)

\* C4: with neighborDiversity enabled and a pool of at least 5 tiles with
\* distinct file names, after every assignment no two horizontally or
\* vertically adjacent placed cells hold the same tile.
C4_NoAdjacentDuplicates ==
    ( /\ asg.phase \in {"run", "done"}
      /\ asg.settings.neighborDiversity = "enabled"
      /\ Len(asg.tileMetadata) >= 5
      /\ DistinctNames(asg.tileMetadata) ) =>
        \A p, q \in GridPositions(asg.settings.gridSize) :
            (Adjacent(p, q) /\ asg.tileMap[p] # 0 /\ asg.tileMap[q] # 0)
                => asg.tileMap[p] # asg.tileMap[q]

\* a grid of several cells completely assigned from such a pool
C4_Witness ==
    /\ asg.phase = "done"
    /\ asg.settings.neighborDiversity = "enabled"
    /\ asg.settings.gridSize >= 2
    /\ Len(asg.tileMetadata) >= 5
    /\ DistinctNames(asg.tileMetadata)

\* C5: the tile assigned under the neighbour constraint is a neighbour's
\* tile only when every tile of the pool is in the cell's exclusion set;
\* whenever some tile of the pool is not excluded, the assigned tile is
\* not a neighbour's, also when all those tiles have reached maxUsage,
\* and whatever was relaxed for earlier cells.
C5_FallbackOnlyWhenAllExcluded ==
    ( /\ asg.phase \in {"run", "done"}
      /\ asg.settings.neighborDiversity = "enabled"
      /\ asg.i > 0 ) =>
        LET last == asg.tiles[Len(asg.tiles)]
            excludedTileNames ==
                { asg.neighborTiles[k] : k \in 1..Len(asg.neighborTiles) }
        IN (\E k \in 1..Len(asg.tileMetadata) :
                asg.tileMetadata[k].filename \notin excludedTileNames)
               => last.tile \notin excludedTileNames

\* a cell with placed neighbours for which every tile that is not a
\* neighbour's had reached maxUsage
C5_Witness ==
    /\ asg.phase \in {"run", "done"}
    /\ asg.settings.neighborDiversity = "enabled"
    /\ asg.i > 0
    /\ asg.neighborTiles # <<>>
    /\ asg.saturated

(***************************************************************************)
(* SpecApp: the main thread (src/js/main.js) composed with the worker.     *)
(* The controls of the progress overlay can be clicked while the overlay   *)
(* is shown, which is while state.isProcessing; what a click posts waits   *)
(* in inbox until the worker handles it, at an await of a run or while     *)
(* idle.  lastClick keeps, of the last click, the control, whether the     *)
(* run was paused and shown as paused, and the type of the message posted. *)
(***************************************************************************)
\* the runs of SpecApp all have the largest grid and one good tile
AppMessages ==
    { m \in GenerateMessages :
        m.gridSize = MaxGrid /\ m.files = [n |-> 1, bad |-> {}] }

\* worker.postMessage(m) by the handler of a click on control
PostToWorker(control, m) ==
    /\ Len(inbox) < MaxInbox
    /\ inbox' = Append(inbox, m)
    /\ lastClick' = [control |-> control,
                     paused |-> userPaused /\ pauseBtnText = "Resume",
                     posted |-> m.type]

\* handleGenerateClick (main.js, lines 509-583)
handleGenerateClick ==
    /\ ~appIsProcessing
    /\ \E r \in Runs : run[r].pc = "idle"
    /\ appIsProcessing' = TRUE
    /\ \E m \in AppMessages : PostToWorker("generate", m)
    /\ UNCHANGED <<workerVars, controls, pauseBtnText, generation, asg,
                   unitVars>>

\* handlePauseClick (main.js, lines 757-759), bound to pause-btn
handlePauseClick ==
    /\ appIsProcessing
    /\ controls < MaxControls
    /\ controls' = controls + 1
    /\ \E m \in ControlMessages : m.type = "pause" /\ PostToWorker("pause", m)
    /\ UNCHANGED <<workerVars, appIsProcessing, pauseBtnText, generation,
                   asg, unitVars>>

\* handleCancelClick (main.js, lines 761-766)
handleCancelClick ==
    /\ appIsProcessing
    /\ controls < MaxControls
    /\ controls' = controls + 1
    /\ \E m \in ControlMessages : m.type = "cancel" /\ PostToWorker("cancel", m)
    /\ appIsProcessing' = FALSE
    /\ UNCHANGED <<workerVars, pauseBtnText, generation, asg, unitVars>>

\* self.onmessage (lines 1227-1229) with the oldest posted message
WorkerReceive ==
    /\ inbox # <<>>
    /\ handleMessage(Head(inbox))
    /\ inbox' = Tail(inbox)
    /\ UNCHANGED <<controls, lastClick, generation, asg, unitVars>>

NextApp ==
    \/ handleGenerateClick
    \/ handlePauseClick
    \/ handleCancelClick
    \/ WorkerReceive
    \/ Continue

SpecApp == Init /\ [][NextApp]_vars

\* C9: a click on the pause/resume control while the run is paused makes
\* the main thread post 'resume' to the worker
C9_ClickWhilePausedResumes ==
    (lastClick.control = "pause" /\ lastClick.paused)
        => lastClick.posted = "resume"

(***************************************************************************)
(* SpecClock: the elapsed time of the progress events of one run.  clock   *)
(* holds Date.now(), the worker's startTime and isPaused, whether the run  *)
(* waits in the polling loop of checkPauseCancel, and of the last          *)
(* progress event its elapsedTime; as history, the time the run has spent  *)
(* waiting in the loop, in all and when the event was posted, and the      *)
(* time of the event.                                                      *)
(***************************************************************************)
\* the frame of the actions of SpecClock
clockFrame == <<engineVars, call, lru, tileCache, viewer>>

\* generateMosaic (lines 254-258): this.startTime = Date.now()
InitClock ==
    /\ InitEngineIdle /\ CallOff /\ LruOff /\ TileCacheOff /\ ViewerOff
    /\ \E t \in 0..1 :
         clock = [phase |-> "run", now |-> t, startTime |-> t,
                  isPaused |-> FALSE, waiting |-> FALSE,
                  events |-> 0, elapsedTime |-> 0,
                  waited |-> 0, waitedAtEvent |-> 0, eventAt |-> t]

\* time passes
ClockTick ==
    /\ clock.phase = "run"
    /\ clock.now - clock.startTime < MaxTime
    /\ clock' = [clock EXCEPT
                   !.now = @ + 1,
                   !.waited = IF clock.waiting THEN @ + 1 ELSE @]
    /\ UNCHANGED clockFrame

\* updateStageProgress -> updateTotalProgress (lines 1107-1134), which
\* posts elapsedTime: Date.now() - this.startTime, followed by
\* checkPauseCancel (lines 1145-1153)
ClockProgress ==
    /\ clock.phase = "run"
    /\ ~clock.waiting
    /\ clock' = [clock EXCEPT
                   !.events = Min(@ + 1, 2),
                   !.elapsedTime = clock.now - clock.startTime,
                   !.waitedAtEvent = clock.waited,
                   !.eventAt = clock.now,
                   !.waiting = clock.isPaused]
    /\ UNCHANGED clockFrame

\* pauseProcessing (lines 1155-1158)
ClockPause ==
    /\ clock.phase = "run"
    /\ ~clock.isPaused
    /\ clock' = [clock EXCEPT !.isPaused = TRUE]
    /\ UNCHANGED clockFrame

\* resumeProcessing (lines 1160-1163)
ClockResume ==
    /\ clock.phase = "run"
    /\ clock.isPaused
    /\ clock' = [clock EXCEPT !.isPaused = FALSE]
    /\ UNCHANGED clockFrame

\* the polling loop of checkPauseCancel ends (lines 1150-1152)
ClockPoll ==
    /\ clock.phase = "run"
    /\ clock.waiting
    /\ ~clock.isPaused
    /\ clock' = [clock EXCEPT !.waiting = FALSE]
    /\ UNCHANGED clockFrame

NextClock ==
    ClockTick \/ ClockProgress \/ ClockPause \/ ClockResume \/ ClockPoll

SpecClock == InitClock /\ [][NextClock]_vars

\* C11: the elapsedTime of a progress event leaves out the time the run
\* spent paused: it is at most the time since the start of the run less
\* the time the run had waited in the pause loop when the event was posted
C11_ElapsedExcludesPause ==
    clock.events > 0 =>
        clock.elapsedTime
            <= clock.eventAt - clock.startTime - clock.waitedAtEvent

(***************************************************************************)
(* SpecCodec: compressImageData and decompressImageData (lines 1046-1078,  *)
(* the same code as ImageDataCompressor.compressRGB565 / decompressRGB565, *)
(* lines 1337-1369), one pixel of the buffer at a time: the loops treat    *)
(* the pixels independently.  call holds the pixel drawn, the Uint16       *)
(* stored for it and the pixels read back by two decompressions.           *)
(***************************************************************************)
\* the bitwise operators of JavaScript on non-negative 32-bit operands
RECURSIVE BitOr(_, _)
BitOr(a, b) ==
    IF a = 0 THEN b
    ELSE IF b = 0 THEN a
    ELSE (IF a % 2 = 1 \/ b % 2 = 1 THEN 1 ELSE 0)
         + 2 * BitOr(a \div 2, b \div 2)

RECURSIVE BitAnd(_, _)
BitAnd(a, b) ==
    IF a = 0 \/ b = 0 THEN 0
    ELSE (IF a % 2 = 1 /\ b % 2 = 1 THEN 1 ELSE 0)
         + 2 * BitAnd(a \div 2, b \div 2)

ShiftLeft(v, k) == v * (2 ^ k)
ShiftRight(v, k) == v \div (2 ^ k)

\* a store into a Uint16Array keeps the low 16 bits
ToUint16(v) == v % 65536

\* A faulty variant of compressImageData that shifts green by 6 bits, into
\* the bits of red.  C12_RoundTripWithinStep must tell it from the code.
compressGreenShift6(p) ==
    ToUint16(BitOr(BitOr(ShiftLeft(p.r \div 8, 11), ShiftLeft(p.g \div 4, 6)),
                   p.b \div 8))

\* compressImageData (lines 1046-1059), the Uint16 of one pixel
compressImageData(p) ==
    LET r == p.r \div 8
        g == p.g \div 4
        b == p.b \div 8
    IN ToUint16(BitOr(BitOr(ShiftLeft(r, 11), ShiftLeft(g, 5)), b))

\* decompressImageData (lines 1061-1078), the pixel of one Uint16
decompressImageData(pixel) ==
    [r |-> ShiftRight(pixel, 11) * 8,
     g |-> BitAnd(ShiftRight(pixel, 5), 63) * 4,
     b |-> BitAnd(pixel, 31) * 8,
     a |-> 255]

\* the values of a channel next to the quantization steps
ChannelSamples == {0, 3, 4, 7, 8, 255}

\* pixels of a Uint8ClampedArray: one channel over all its 256 values, the
\* others over the samples
Pixels ==
    { [r |-> v, g |-> x, b |-> y, a |-> a] :
        v \in 0..255, x \in ChannelSamples, y \in ChannelSamples, a \in {0, 255} }
    \cup
    { [r |-> x, g |-> v, b |-> y, a |-> a] :
        v \in 0..255, x \in ChannelSamples, y \in ChannelSamples, a \in {0, 255} }
    \cup
    { [r |-> x, g |-> y, b |-> v, a |-> a] :
        v \in 0..255, x \in ChannelSamples, y \in ChannelSamples, a \in {0, 255} }

callFrame == <<engineVars, clock, lru, tileCache, viewer>>

InitCodec ==
    /\ InitEngineIdle /\ ClockOff /\ LruOff /\ TileCacheOff /\ ViewerOff
    /\ \E p \in Pixels :
         call = [phase |-> "pixel", pixel |-> p, compressed |-> 0,
                 result |-> p, again |-> p]

CodecCompress ==
    /\ call.phase = "pixel"
    /\ call' = [call EXCEPT !.phase = "compressed",
                            !.compressed = compressImageData(call.pixel)]
    /\ UNCHANGED callFrame

CodecDecompress ==
    /\ call.phase = "compressed"
    /\ call' = [call EXCEPT !.phase = "decompressed",
                            !.result = decompressImageData(call.compressed)]
    /\ UNCHANGED callFrame

\* a second compression and decompression of the same pixel
CodecRepeat ==
    /\ call.phase = "decompressed"
    /\ call' = [call EXCEPT
                  !.phase = "repeated",
                  !.again = decompressImageData(compressImageData(call.pixel))]
    /\ UNCHANGED callFrame

NextCodec == CodecCompress \/ CodecDecompress \/ CodecRepeat

SpecCodec == InitCodec /\ [][NextCodec]_vars

\* C12: decompress(compress(p)) is the same on every call and differs from
\* p by less than a quantization step per channel (at most 7 for R and B,
\* at most 3 for G), with alpha 255; the quantized values floor(R/8),
\* floor(G/4), floor(B/8) are all recovered from the 16 bits.
C12_RoundTripWithinStep ==
    /\ call.phase \in {"decompressed", "repeated"} =>
         /\ Abs(call.pixel.r - call.result.r) <= 7
         /\ Abs(call.pixel.g - call.result.g) <= 3
         /\ Abs(call.pixel.b - call.result.b) <= 7
         /\ call.result.a = 255
         /\ call.result.r = (call.pixel.r \div 8) * 8
         /\ call.result.g = (call.pixel.g \div 4) * 4
         /\ call.result.b = (call.pixel.b \div 8) * 8
         /\ call.compressed \in 0..65535
    /\ call.phase = "repeated" => call.again = call.result

\* a pixel with the largest loss in every channel, read back twice
C12_Witness ==
    /\ call.phase = "repeated"
    /\ call.pixel.r = 255 /\ call.pixel.g = 255 /\ call.pixel.b = 255
    /\ call.result.r = 248 /\ call.result.g = 252 /\ call.result.b = 248

(***************************************************************************)
(* SpecLRU: class LRUCache (lines 1241-1331).  lru holds maxSize,          *)
(* maxMemory, the Map cache as the sequence of its entries in insertion    *)
(* order, and currentMemory; as history, the keys stored in the order of   *)
(* their last touch (get hit or set), and whether every eviction so far    *)
(* removed the key touched least recently.  A set whose while loop cannot  *)
(* end (evictLRU finds no key, or a falsy first key, and removes nothing)  *)
(* leaves the cache spinning: phase "hung", no further operation.          *)
(***************************************************************************)
\* estimateMemorySize (lines 1306-1320)
estimateMemorySize(value) ==
    CASE value.type = "OffscreenCanvas" -> value.width * value.height * 4
      [] value.type = "ImageData" -> value.length
      [] value.type = "Uint16Array" -> value.length * 2
      [] value.type = "Uint8Array" -> value.length
      [] OTHER -> 1024

\* the keys of the Map, in order
KeysOf(cache) == [k \in 1..Len(cache) |-> cache[k].key]

\* Map.prototype.has
Has(cache, key) == \E k \in 1..Len(cache) : cache[k].key = key

\* Map.prototype.get of a key the Map has
ValueOf(cache, key) ==
    cache[CHOOSE k \in 1..Len(cache) : cache[k].key = key].value

\* Map.prototype.delete
Without(cache, key) ==
    LET other(e) == e.key # key IN SelectSeq(cache, other)

\* the keys of a sequence of keys, without key
Untouch(keys, key) ==
    LET other(k) == k # key IN SelectSeq(keys, other)

\* delete(key) (lines 1284-1292)
delete(c, key) ==
    IF Has(c.cache, key)
    THEN [c EXCEPT
            !.currentMemory = @ - estimateMemorySize(ValueOf(c.cache, key)),
            !.cache = Without(c.cache, key),
            !.touched = Untouch(c.touched, key)]
    ELSE c

\* evictLRU (lines 1299-1304): the first key of the Map, if it is truthy
\* (0 stands for a falsy key)
evictLRU(c) ==
    IF c.cache # <<>> /\ c.cache[1].key # 0
    THEN [delete(c, c.cache[1].key) EXCEPT
            !.lruOk = c.lruOk /\ c.touched[1] = c.cache[1].key]
    ELSE c

\* the while loop of set (lines 1264-1267)
RECURSIVE EvictWhileOver(_, _)
EvictWhileOver(c, memorySize) ==
    IF c.currentMemory + memorySize > c.maxMemory
       \/ Len(c.cache) >= c.maxSize
    THEN LET d == evictLRU(c)
         IN IF d.cache = c.cache THEN [c EXCEPT !.phase = "hung"]
            ELSE EvictWhileOver(d, memorySize)
    ELSE c

\* A faulty variant of set that does not give back the memory of the value
\* it replaces.  C13_CacheWithinBudget must tell it from the code.
setKeepingOldMemory(c, key, value) ==
    LET memorySize == estimateMemorySize(value)
        d == EvictWhileOver(c, memorySize)
    IN IF d.phase = "hung" THEN d
       ELSE [d EXCEPT
               !.cache = Append(Without(d.cache, key),
                                [key |-> key, value |-> value]),
               !.currentMemory = @ + memorySize,
               !.touched = Append(Untouch(d.touched, key), key)]

\* set(key, value) (lines 1260-1278)
set(c, key, value) ==
    LET memorySize == estimateMemorySize(value)
        d == EvictWhileOver(c, memorySize)
        e == IF Has(d.cache, key)
             THEN [d EXCEPT
                     !.currentMemory =
                         @ - estimateMemorySize(ValueOf(d.cache, key)),
                     !.cache = Without(d.cache, key)]
             ELSE d
    IN IF d.phase = "hung" THEN d
       ELSE [e EXCEPT
               !.cache = Append(@, [key |-> key, value |-> value]),
               !.currentMemory = @ + memorySize,
               !.touched = Append(Untouch(e.touched, key), key)]

\* A faulty variant of get that leaves the order of the Map alone.
\* C14_EvictsLeastRecentlyUsed must tell it from the code.
getWithoutReorder(c, key) ==
    IF Has(c.cache, key)
    THEN [c EXCEPT !.touched = Append(Untouch(c.touched, key), key)]
    ELSE c

\* get(key) (lines 1249-1258): the cache after the call
get(c, key) ==
    IF Has(c.cache, key)
    THEN [c EXCEPT
            !.cache = Append(Without(c.cache, key),
                             [key |-> key, value |-> ValueOf(c.cache, key)]),
            !.touched = Append(Untouch(c.touched, key), key)]
    ELSE c

\* clear() (lines 1294-1297)
clear(c) ==
    [c EXCEPT !.cache = <<>>, !.currentMemory = 0, !.touched = <<>>]

\* keys (0 is a falsy key) and values of the entries
CacheKeys == 0..3
CacheValues ==
    { [type |-> "OffscreenCanvas", width |-> 16, height |-> 16, length |-> 0],
      [type |-> "OffscreenCanvas", width |-> 16, height |-> 32, length |-> 0],
      [type |-> "Uint16Array", width |-> 0, height |-> 0, length |-> 256],
      [type |-> "ImageData", width |-> 0, height |-> 0, length |-> 4096],
      [type |-> "Object", width |-> 0, height |-> 0, length |-> 0] }

lruFrame == <<engineVars, clock, call, tileCache, viewer>>

\* history of a set(key, value) that took the cache from c to after:
\* whether key was present, whether the byte budget holds once the old
\* value is replaced by the new one, and whether an entry of another key
\* was removed
SetEffect(c, after, key, value) ==
    LET present == Has(c.cache, key)
    IN [present |-> present,
        fits |-> present
                 /\ c.currentMemory
                      - estimateMemorySize(ValueOf(c.cache, key))
                      + estimateMemorySize(value) <= c.maxMemory,
        lost |-> \E k \in 1..Len(c.cache) :
                    /\ c.cache[k].key # key
                    /\ ~Has(after.cache, c.cache[k].key)]

\* constructor(maxSize, maxMemory) (lines 1242-1247)
InitLRU ==
    /\ InitEngineIdle /\ ClockOff /\ CallOff /\ TileCacheOff /\ ViewerOff
    /\ \E maxSize \in 0..MaxLruSize, maxMemory \in {2048, 3072} :
         lru = [phase |-> "ready", maxSize |-> maxSize,
                maxMemory |-> maxMemory, cache |-> <<>>,
                currentMemory |-> 0, touched |-> <<>>, lruOk |-> TRUE,
                evictions |-> 0,
                lastSet |-> [present |-> FALSE, fits |-> FALSE,
                             lost |-> FALSE]]

LruGet ==
    /\ lru.phase = "ready"
    /\ \E key \in CacheKeys : lru' = get(lru, key)
    /\ UNCHANGED lruFrame

LruSet ==
    /\ lru.phase = "ready"
    /\ \E key \in CacheKeys, value \in CacheValues :
         LET after == set(lru, key, value)
             gone == Len(lru.cache) + 1 - Len(after.cache)
         IN lru' = [after EXCEPT
                      !.evictions =
                          IF after.phase = "ready" /\ ~Has(lru.cache, key)
                             /\ gone > 0
                          THEN 1 ELSE lru.evictions,
                      !.lastSet = SetEffect(lru, after, key, value)]
    /\ UNCHANGED lruFrame

LruDelete ==
    /\ lru.phase = "ready"
    /\ \E key \in CacheKeys : lru' = delete(lru, key)
    /\ UNCHANGED lruFrame

LruClear ==
    /\ lru.phase = "ready"
    /\ lru' = clear(lru)
    /\ UNCHANGED lruFrame

NextLRU == LruGet \/ LruSet \/ LruDelete \/ LruClear

SpecLRU == InitLRU /\ [][NextLRU]_vars

RECURSIVE SumSizes(_)
\* the sum of the estimated sizes of the entries of a Map
SumSizes(cache) ==
    IF cache = <<>> THEN 0
    ELSE estimateMemorySize(Head(cache).value) + SumSizes(Tail(cache))

\* C13: after any sequence of get, set, delete and clear the cache has at
\* most maxSize entries, currentMemory is at most maxMemory, and
\* currentMemory is the sum of the estimated sizes of the stored entries
C13_CacheWithinBudget ==
    lru.phase # "off" =>
        /\ Len(lru.cache) <= lru.maxSize
        /\ lru.currentMemory <= lru.maxMemory
        /\ lru.currentMemory = SumSizes(lru.cache)

\* a cache full in entries and in memory after a set that had to evict
C13_Witness ==
    /\ lru.phase = "ready"
    /\ Len(lru.cache) = lru.maxSize
    /\ lru.maxSize = MaxLruSize
    /\ lru.currentMemory = lru.maxMemory
    /\ lru.evictions > 0

\* C14: every eviction by set removed the key touched least recently by a
\* get hit or a set, and a get hit or a set makes its key the most
\* recently used: the Map keeps its keys in the order of their last touch
C14_EvictsLeastRecentlyUsed ==
    lru.phase # "off" =>
        /\ lru.lruOk
        /\ KeysOf(lru.cache) = lru.touched

\* a set has evicted, and the stored keys are no longer in key order
C14_Witness ==
    /\ lru.phase = "ready"
    /\ lru.evictions > 0
    /\ Len(lru.cache) >= 2
    /\ lru.cache[1].key > lru.cache[2].key

(***************************************************************************)
(* SpecTileCache: the cache the compositor draws from, the Map             *)
(* this.tileCache of MosaicWorker (line 208) as drawTileToCanvas and       *)
(* manageTileCache use it during one run.  tileCache holds the keys of     *)
(* the Map in insertion order; as history, the key of the last draw and    *)
(* whether it was a hit, the key the last draw evicted (0 for none) and    *)
(* whether that key is the one the draw before it took from the cache.     *)
(* Tiles are numbered in the order in which they are first drawn.          *)
(***************************************************************************)
\* A faulty variant of manageTileCache that never evicts.
\* C39_TileCacheWithinMaxCacheSize must tell it from the code.
manageTileCacheUnbounded(keys, key) ==
    Append(keys, key)

\* checkMemoryPressure (lines 1170-1177): the keys of the Map after the
\* call; size > maxCacheSize * 0.8 and Math.floor(maxCacheSize * 0.3)
checkMemoryPressure(keys) ==
    IF Len(keys) * 10 > maxCacheSize * 8
    THEN SubSeq(keys, Min(Len(keys), (maxCacheSize * 3) \div 10) + 1,
                Len(keys))
    ELSE keys

\* manageTileCache(key, canvas) (lines 1080-1089): the keys of the Map
\* after the call
manageTileCache(keys, key) ==
    LET kept == IF Len(keys) >= maxCacheSize THEN Tail(keys) ELSE keys
    IN Append(kept, key)

\* the keys seen so far are 1..Fresh - 1
Fresh == IF tileCache.keys = <<>> THEN 1
         ELSE tileCache.keys[Len(tileCache.keys)] + 1

tileCacheFrame == <<engineVars, clock, call, lru, viewer>>

\* the cache at the start of the assignment: cleanup() has cleared it
InitTileCache ==
    /\ InitEngineIdle /\ ClockOff /\ CallOff /\ LruOff /\ ViewerOff
    /\ tileCache = [phase |-> "run", keys |-> <<>>,
                    lastKey |-> 0, lastHit |-> FALSE,
                    evicted |-> 0, evictedJustHit |-> FALSE]

\* drawTileToCanvas (lines 840-860) of a tile whose canvas is cached:
\* this.tileCache.get(cacheKey) and nothing else
DrawCached ==
    /\ tileCache.phase = "run"
    /\ \E k \in 1..Len(tileCache.keys) :
         tileCache' = [tileCache EXCEPT
                         !.lastKey = tileCache.keys[k],
                         !.lastHit = TRUE,
                         !.evicted = 0,
                         !.evictedJustHit = FALSE]
    /\ UNCHANGED tileCacheFrame

\* drawTileToCanvas of a tile that is not cached: the canvas is built and
\* manageTileCache stores it
DrawBuilt ==
    /\ tileCache.phase = "run"
    /\ Fresh <= MaxDrawnTiles
    /\ LET full == Len(tileCache.keys) >= maxCacheSize
       IN tileCache' = [tileCache EXCEPT
                          !.keys = manageTileCache(tileCache.keys, Fresh),
                          !.lastKey = Fresh,
                          !.lastHit = FALSE,
                          !.evicted = IF full THEN tileCache.keys[1] ELSE 0,
                          !.evictedJustHit =
                              /\ full
                              /\ tileCache.lastHit
                              /\ tileCache.lastKey = tileCache.keys[1]]
    /\ UNCHANGED tileCacheFrame

\* checkMemoryPressure, which processTileImages awaits after every second
\* batch (lines 399-401) and which another run may have filled the cache
\* for
MemoryPressure ==
    /\ tileCache.phase = "run"
    /\ tileCache' = [tileCache EXCEPT
                       !.keys = checkMemoryPressure(tileCache.keys),
                       !.evicted = 0,
                       !.evictedJustHit = FALSE]
    /\ UNCHANGED tileCacheFrame

NextTileCache == DrawCached \/ DrawBuilt \/ MemoryPressure

SpecTileCache == InitTileCache /\ [][NextTileCache]_vars

\* C15: the cache evicts the least recently used entry; a hit makes its
\* key the most recently used, so the tile that was drawn from the cache
\* by the draw before an eviction is not the one evicted
C15_HitIsNotNextVictim ==
    (tileCache.phase = "run" /\ tileCache.evicted # 0)
        => ~tileCache.evictedJustHit

(***************************************************************************)
(* SpecHiRes: the high-resolution reconstruction of main.js.  The worker's *)
(* finalizeResult builds the result with its gridInfo from the settings of *)
(* the run; generateHighResolutionMosaic chooses the tile size, creates    *)
(* the canvas and returns it or null.  call holds the settings, then the   *)
(* result data, then the result data together with what was returned.      *)
(***************************************************************************)
\* a || b of JavaScript for numbers: 0 is falsy
OrElse(a, b) == IF a = 0 THEN b ELSE a

\* finalizeResult (image-processor.js lines 892-912): the gridInfo of the
\* result
gridInfoOf(mosaicData) ==
    [gridSize |-> OrElse(mosaicData.gridSize, 50),
     tileSize |-> OrElse(mosaicData.tileSize, 32)]

\* Math.floor(maxCanvasSize / 256) (line 836)
maxGridSizeFor256 == maxCanvasSize \div HighResTileSize

\* the tile size without the adjustment of lines 838-843
highResTileSizeUnadjusted(gridSize) == HighResTileSize

\* lines 832-843: the tile size generateHighResolutionMosaic draws with
highResTileSizeFor(gridSize) ==
    IF gridSize > maxGridSizeFor256
    THEN maxCanvasSize \div gridSize
    ELSE HighResTileSize

\* generateHighResolutionMosaic (lines 811-1112) as far as sizes go: the
\* tile size used and the canvas returned, "null" for none.  ctx is whether
\* getContext('2d') gave a context.
generateHighResolutionMosaic(resultData, ctx) ==
    LET gridInfo == resultData.gridInfo
        tileSize == highResTileSizeFor(gridInfo.gridSize)
        fullWidth == gridInfo.gridSize * tileSize
        fullHeight == gridInfo.gridSize * tileSize
    IN  [highResTileSize |-> tileSize,
         canvas |->
            IF fullWidth > maxCanvasSize \/ fullHeight > maxCanvasSize
            THEN "null"
            ELSE IF ~ctx \/ fullWidth = 0 \/ fullHeight = 0
            THEN "null"
            ELSE "canvas",
         width |-> fullWidth,
         height |-> fullHeight]

\* grid sizes: the ordinary ones and the ones around the canvas limit
HiResGridSizes == (1..MaxHiResGrid) \cup {maxCanvasSize, maxCanvasSize + 1}

\* tile sizes of the settings (index.html: range 8..64 in steps of 8)
HiResTileSizes == {8, 32, 64}

InitHiRes ==
    /\ InitEngineIdle /\ ClockOff /\ LruOff /\ TileCacheOff /\ ViewerOff
    /\ \E g \in HiResGridSizes, t \in HiResTileSizes :
         call = [phase |-> "mosaic", gridSize |-> g, tileSize |-> t]

\* the worker finishes the run: finalizeResult builds the result data
HiResFinalize ==
    /\ call.phase = "mosaic"
    /\ call' = [phase |-> "result",
                gridInfo |-> gridInfoOf(call)]
    /\ UNCHANGED callFrame

\* the download asks for the high-resolution image
HiResGenerate ==
    /\ call.phase = "result"
    /\ \E ctx \in BOOLEAN :
         call' = [phase |-> "highres",
                  gridInfo |-> call.gridInfo,
                  returned |-> generateHighResolutionMosaic(call, ctx)]
    /\ UNCHANGED callFrame

NextHiRes == HiResFinalize \/ HiResGenerate

SpecHiRes == InitHiRes /\ [][NextHiRes]_vars

\* C16: for every gridSize >= 1 the tile size chosen is the largest
\* integer t <= 256 with gridSize * t <= 32767, and a raster that is
\* returned has width and height gridSize * t, both in 1..32767
C16_TileSizeLargestThatFits ==
    call.phase = "highres" =>
        LET g == call.gridInfo.gridSize
            t == call.returned.highResTileSize
        IN  /\ t <= 256
            /\ g * t <= 32767
            /\ (t < 256 => g * (t + 1) > 32767)
            /\ call.returned.canvas = "canvas" =>
                  /\ call.returned.width = g * t
                  /\ call.returned.height = g * t
                  /\ call.returned.width \in 1..32767

\* a raster is returned with a reduced tile size
C16_Witness ==
    /\ call.phase = "highres"
    /\ call.returned.canvas = "canvas"
    /\ call.returned.highResTileSize < 256

\* C17: when generateHighResolutionMosaic reduces the tile size, the
\* reduced tile size is what the result's gridInfo.tileSize reports
C17_ReducedTileSizeReported ==
    (call.phase = "highres" /\ call.returned.highResTileSize < HighResTileSize)
        => call.gridInfo.tileSize = call.returned.highResTileSize

(***************************************************************************)
(* SpecDistance: the distance that ranks tiles in 'rgb' mode.  The        *)
(* candidates of selectBestTile (line 730) and of                          *)
(* selectBestTileWithNeighborConstraint (line 789) get                     *)
(* calculateColorDistance(cell.lab, tile.averageColorLab,                  *)
(* settings.colorMatching).  Here the channels are the 0..255 values of    *)
(* the code, so rgbToLab yields 2550 times the l of the code; the colours  *)
(* sampled have an l that the code's double arithmetic represents          *)
(* exactly as the model's integers order them.  call holds the colour of   *)
(* a cell and of two tiles, then their distances.                          *)
(***************************************************************************)
\* ColorUtils.deltaEFast (lines 1518-1529), squared
deltaEFastSquared(rgb1, rgb2) ==
    LET deltaR == rgb1.r - rgb2.r
        deltaG == rgb1.g - rgb2.g
        deltaB == rgb1.b - rgb2.b
    IN 2 * deltaR * deltaR + 4 * deltaG * deltaG + 3 * deltaB * deltaB

\* average colours of cells and tiles
ColorSamples ==
    { [r |-> 0, g |-> 0, b |-> 0], [r |-> 0, g |-> 31, b |-> 0],
      [r |-> 1, g |-> 0, b |-> 157], [r |-> 255, g |-> 0, b |-> 0],
      [r |-> 0, g |-> 0, b |-> 255], [r |-> 255, g |-> 255, b |-> 255] }

InitDistance ==
    /\ InitEngineIdle /\ ClockOff /\ LruOff /\ TileCacheOff /\ ViewerOff
    /\ \E cell \in ColorSamples, t1 \in ColorSamples, t2 \in ColorSamples :
         call = [phase |-> "colors", method |-> "rgb",
                 cell |-> cell, tile1 |-> t1, tile2 |-> t2]

\* the distances of the two candidates (line 730)
DistanceRank ==
    /\ call.phase = "colors"
    /\ call' = [phase |-> "ranked", method |-> call.method,
                cell |-> call.cell, tile1 |-> call.tile1,
                tile2 |-> call.tile2,
                distance1 |-> calculateColorDistance(rgbToLab(call.cell),
                                  rgbToLab(call.tile1), call.method),
                distance2 |-> calculateColorDistance(rgbToLab(call.cell),
                                  rgbToLab(call.tile2), call.method)]
    /\ UNCHANGED callFrame

NextDistance == DistanceRank

SpecDistance == InitDistance /\ [][NextDistance]_vars

\* C18: in 'rgb' mode the ranking distance is the weighted Euclidean
\* distance sqrt(2 dR^2 + 4 dG^2 + 3 dB^2): it is 0 only between equal RGB
\* colours, and it orders two tiles as the weighted distance orders them
C18_RgbDistanceIsWeightedEuclidean ==
    (call.phase = "ranked" /\ call.method = "rgb") =>
        /\ call.distance1 = 0 => call.cell = call.tile1
        /\ (call.distance1 < call.distance2)
              <=> (deltaEFastSquared(call.cell, call.tile1)
                      < deltaEFastSquared(call.cell, call.tile2))

(***************************************************************************)
(* SpecTiles: processTileImages (lines 356-424) with the identity and the  *)
(* order of the tiles.  The input files are numbered 1..n in input order;  *)
(* extractTileMetadata throws for the files in bad.  call holds the input, *)
(* the index of the next batch, the tileMetadata array and, as history,    *)
(* the files extractTileMetadata was called for, the longest batch and     *)
(* the errors the catch of the batch loop swallowed.                       *)
(***************************************************************************)
\* files.slice(i, i + size) for a 0-based i
SliceFrom(files, i, size) == SubSeq(files, i + 1, Min(Len(files), i + size))

\* createBatches(files, batchSize) (lines 417-424), the batches themselves
createBatchesOf(files, batchSize) ==
    [b \in 1..CeilDiv(Len(files), batchSize) |->
        SliceFrom(files, (b - 1) * batchSize, batchSize)]

\* executeInParallel (lines 431-451): Promise.all of one result per file, in
\* the order of the files
executeInParallel(files, bad) ==
    [k \in 1..Len(files) |-> [success |-> files[k] \notin bad,
                              file |-> files[k]]]

\* the chunk loop of lines 453-458 from index i on
RECURSIVE ChunksFrom(_, _, _, _)
ChunksFrom(batch, concurrency, bad, i) ==
    IF i >= Len(batch) THEN <<>>
    ELSE executeInParallel(SliceFrom(batch, i, concurrency), bad)
            \o ChunksFrom(batch, concurrency, bad, i + concurrency)

\* a batch loop that stops after its first chunk
processFirstChunkOnly(batch, concurrency, bad) ==
    executeInParallel(SliceFrom(batch, 0, concurrency), bad)

\* processTileBatchInParallel (lines 427-460), the results themselves
processTileBatchResults(batch, concurrency, bad) ==
    ChunksFrom(batch, concurrency, bad, 0)

\* lines 380-387: the metadata of the successful results, in their order
SuccessfulMetadata(results) ==
    LET ok(result) == result.success
        good == SelectSeq(results, ok)
    IN [k \in 1..Len(good) |-> good[k].file]

\* the files 1..n in input order
FilesInOrder(n) == [k \in 1..n |-> k]

TileFileCounts == {0, 1, MaxParallel + 1, MemoryBatchSize + 1, MaxTileFiles}

\* the sets of failing files: none, one, two or all
BadFileSets(n) == { {a, b} : a \in 1..n, b \in 1..n } \cup {{}, 1..n}

InitTiles ==
    /\ InitEngineIdle /\ ClockOff /\ LruOff /\ TileCacheOff /\ ViewerOff
    /\ \E n \in TileFileCounts :
       \E bad \in BadFileSets(n), cancelled \in BOOLEAN :
         call = [phase |-> "tiles", tileFiles |-> FilesInOrder(n),
                 bad |-> bad, isCancelled |-> cancelled,
                 batchIndex |-> 0, tileMetadata |-> <<>>,
                 extracted |-> <<>>, longestBatch |-> 0, caught |-> 0]

\* one turn of the batch loop (lines 371-409); the error checkPauseCancel
\* throws for a cancelled run is caught at line 406
TilesProcessBatch ==
    /\ call.phase = "tiles"
    /\ LET batches == createBatchesOf(call.tileFiles, MemoryBatchSize)
           batchSize == Min(MaxParallel, Len(call.tileFiles))
       IN /\ call.batchIndex < Len(batches)
          /\ LET batch == batches[call.batchIndex + 1]
                 results == processTileBatchResults(batch, batchSize,
                                                    call.bad)
             IN call' = [call EXCEPT
                   !.batchIndex = call.batchIndex + 1,
                   !.tileMetadata =
                       call.tileMetadata \o SuccessfulMetadata(results),
                   !.extracted =
                       call.extracted
                       \o [k \in 1..Len(results) |-> results[k].file],
                   !.longestBatch = Max(call.longestBatch, Len(batch)),
                   !.caught =
                       call.caught + (IF call.isCancelled THEN 1 ELSE 0)]
    /\ UNCHANGED callFrame

\* return tileMetadata (line 414)
TilesReturn ==
    /\ call.phase = "tiles"
    /\ call.batchIndex
         = Len(createBatchesOf(call.tileFiles, MemoryBatchSize))
    /\ call' = [call EXCEPT !.phase = "returned"]
    /\ UNCHANGED callFrame

NextTiles == TilesProcessBatch \/ TilesReturn

SpecTiles == InitTiles /\ [][NextTiles]_vars

\* C19: processTileImages handles every input tile exactly once, in
\* batches of at most 30, and returns exactly the tiles whose extraction
\* succeeded, in input order: a failing tile is left out and the others
\* are still returned
C19_EveryTileOnceInOrder ==
    call.phase = "returned" =>
        LET n == Len(call.tileFiles)
            m == Len(call.tileMetadata)
        IN  /\ call.extracted = call.tileFiles
            /\ call.longestBatch <= 30
            /\ { call.tileMetadata[k] : k \in 1..m } = (1..n) \ call.bad
            /\ \A j, k \in 1..m :
                  j < k => call.tileMetadata[j] < call.tileMetadata[k]

\* two batches, a failing tile in the first, and tiles returned from both
C19_Witness ==
    /\ call.phase = "returned"
    /\ call.batchIndex >= 2
    /\ \E a \in call.bad : a <= MemoryBatchSize
    /\ \E j, k \in 1..Len(call.tileMetadata) :
          /\ call.tileMetadata[j] <= MemoryBatchSize
          /\ call.tileMetadata[k] > MemoryBatchSize

(***************************************************************************)
(* SpecViewer: the zoom of ImageViewer (image-viewer.js).  viewer holds    *)
(* zoom.level as an exact fraction, whether an image is loaded and its     *)
(* size, whether mosaicData is set, isHighResMode, the size of the         *)
(* viewport and the number of operations so far.  pan does not enter       *)
(* zoom.level and is left out.                                             *)
(***************************************************************************)
\* this.zoom of the constructor (lines 16-21)
zoom == [min |-> Frac(1, 10), max |-> FracOfInt(10), step |-> Frac(2, 10)]

FracMul(a, b) == Frac(a.n * b.n, a.d * b.d)
FracMin(a, b) == IF FracLeq(a, b) THEN a ELSE b
FracMax(a, b) == IF FracLeq(b, a) THEN a ELSE b

\* 1 + this.zoom.step and 1 - this.zoom.step
OnePlusStep == Frac(zoom.step.d + zoom.step.n, zoom.step.d)
OneMinusStep == Frac(zoom.step.d - zoom.step.n, zoom.step.d)

\* this.highResThreshold = 2.0 (line 35)
highResThreshold == FracOfInt(2)

\* checkHighResMode (lines 477-489)
checkHighResMode(v) ==
    [v EXCEPT !.isHighResMode =
                  FracLeq(highResThreshold, v.level) /\ v.hasMosaicData]

\* zoomAt(x, y, factor) (lines 227-245): the new zoom.level and mode
zoomAt(v, factor) ==
    LET oldLevel == v.level
        newLevel == FracMax(zoom.min, FracMin(zoom.max,
                                              FracMul(oldLevel, factor)))
    IN IF newLevel # oldLevel
       THEN checkHighResMode([v EXCEPT !.level = newLevel])
       ELSE v

\* fitToWindow (lines 270-283)
fitToWindow(v) ==
    IF ~v.hasImage THEN v
    ELSE LET scaleX == Frac(v.viewport.width, v.image.width)
             scaleY == Frac(v.viewport.height, v.image.height)
         IN [v EXCEPT !.level = FracMin(scaleX, scaleY)]

\* resetView (lines 300-305)
resetView(v) == fitToWindow([v EXCEPT !.level = FracOfInt(1)])

\* the images loaded: results of gridSize * tileSize pixels a side, from
\* 20 * 8 to 200 * 64
ViewerImages ==
    { [width |-> w, height |-> w] : w \in {160, 1600, 12800} }

\* canvas.clientWidth and clientHeight
Viewports ==
    { [width |-> 800, height |-> 600], [width |-> 1920, height |-> 1080] }

viewerFrame == <<engineVars, clock, call, lru, tileCache>>

\* constructor and initialize(canvasElement): this.image = null,
\* updateViewport
InitViewer ==
    /\ InitEngineIdle /\ ClockOff /\ CallOff /\ LruOff /\ TileCacheOff
    /\ \E vp \in Viewports :
         viewer = [phase |-> "view", level |-> FracOfInt(1),
                   hasImage |-> FALSE,
                   image |-> [width |-> 0, height |-> 0],
                   hasMosaicData |-> FALSE, isHighResMode |-> FALSE,
                   viewport |-> vp, ops |-> 0]

\* the viewer with one more operation counted
Counted(v) == [v EXCEPT !.ops = viewer.ops + 1]

\* loadImage (lines 59-100): mosaicData and the image are stored and
\* resetView runs
ViewerLoadImage ==
    /\ viewer.phase = "view" /\ viewer.ops < MaxViewerOps
    /\ \E img \in ViewerImages, mosaicMetadata \in BOOLEAN :
         viewer' = Counted(resetView(
                       [viewer EXCEPT !.hasMosaicData = mosaicMetadata,
                                      !.hasImage = TRUE,
                                      !.image = img]))
    /\ UNCHANGED viewerFrame

\* zoomIn (lines 248-252)
ViewerZoomIn ==
    /\ viewer.phase = "view" /\ viewer.ops < MaxViewerOps
    /\ viewer' = Counted(zoomAt(viewer, OnePlusStep))
    /\ UNCHANGED viewerFrame

\* zoomOut (lines 255-259)
ViewerZoomOut ==
    /\ viewer.phase = "view" /\ viewer.ops < MaxViewerOps
    /\ viewer' = Counted(zoomAt(viewer, OneMinusStep))
    /\ UNCHANGED viewerFrame

\* handleWheel (lines 202-213): nothing without an image
ViewerWheel ==
    /\ viewer.phase = "view" /\ viewer.ops < MaxViewerOps
    /\ \E down \in BOOLEAN :
         viewer' = Counted(IF ~viewer.hasImage THEN viewer
                           ELSE zoomAt(viewer, IF down THEN Frac(9, 10)
                                                       ELSE Frac(11, 10)))
    /\ UNCHANGED viewerFrame

\* actualSize (lines 262-267)
ViewerActualSize ==
    /\ viewer.phase = "view" /\ viewer.ops < MaxViewerOps
    /\ viewer' = Counted([viewer EXCEPT !.level = FracOfInt(1)])
    /\ UNCHANGED viewerFrame

\* the fit-to-window control
ViewerFitToWindow ==
    /\ viewer.phase = "view" /\ viewer.ops < MaxViewerOps
    /\ viewer' = Counted(fitToWindow(viewer))
    /\ UNCHANGED viewerFrame

\* handleResize (lines 221-224): updateViewport
ViewerResize ==
    /\ viewer.phase = "view" /\ viewer.ops < MaxViewerOps
    /\ \E vp \in Viewports :
         viewer' = Counted([viewer EXCEPT !.viewport = vp])
    /\ UNCHANGED viewerFrame

NextViewer ==
    \/ ViewerLoadImage
    \/ ViewerZoomIn
    \/ ViewerZoomOut
    \/ ViewerWheel
    \/ ViewerActualSize
    \/ ViewerFitToWindow
    \/ ViewerResize

SpecViewer == InitViewer /\ [][NextViewer]_vars

\* C20: after any sequence of viewer operations the zoom level lies
\* within [0.1, 10.0]
C20_ZoomWithinLimits ==
    viewer.phase = "view" =>
        /\ FracLeq(Frac(1, 10), viewer.level)
        /\ FracLeq(viewer.level, FracOfInt(10))

\* C21: after any sequence of viewer operations high-resolution mode is on
\* exactly when the zoom level is at least 2.0 and mosaic metadata is
\* loaded
C21_HighResModeFollowsZoom ==
    viewer.phase = "view" =>
        (viewer.isHighResMode
            <=> (FracLeq(FracOfInt(2), viewer.level) /\ viewer.hasMosaicData))

(***************************************************************************)
(* SpecScenario: the assignment of SpecAssign for one input, a grid of     *)
(* 4 x 4 cells and a pool of four tiles of the colours red, green, blue    *)
(* and white (the first four of Palette) with neighbour diversity enabled. *)
(***************************************************************************)
InitScenario ==
    /\ InitWorker /\ InitEnv /\ InitApp /\ UnitsOff
    /\ \E colorMatching \in {"lab", "rgb"}, image \in SourceImages :
         asg = [phase |-> "run",
                settings |-> [gridSize |-> 4,
                              neighborDiversity |-> "enabled",
                              colorMatching |-> colorMatching],
                tileMetadata |-> extractTileMetadata(4, "distinct"),
                image |-> image,
                i |-> 0,
                tileMap |-> [p \in GridPositions(4) |-> 0],
                tileUsageCount |-> [f \in Names |-> 0],
                tiles |-> <<>>,
                neighborTiles |-> <<>>,
                saturated |-> FALSE]

SpecScenario == InitScenario /\ [][NextAssign]_vars

\* C22: with gridSize 4, the four tiles red, green, blue and white and
\* neighbour diversity enabled, whatever the source image and the random
\* draws, every tile ends with a usage count of 4 and every 2 x 2 block of
\* adjacent cells holds 4 distinct tiles
C22_ScenarioBalancedAndDistinct ==
    (asg.phase = "done" /\ asg.settings.gridSize = 4
        /\ Len(asg.tileMetadata) = 4) =>
        /\ \A f \in 1..4 : asg.tileUsageCount[f] = 4
        /\ \A x, y \in 0..2 :
              Cardinality({ asg.tileMap[<<x, y>>], asg.tileMap[<<x + 1, y>>],
                            asg.tileMap[<<x, y + 1>>],
                            asg.tileMap[<<x + 1, y + 1>>] }) = 4

\* C23: at most one generation run is in progress in the worker at any
\* time, so two runs never interleave on the shared isCancelled, stage and
\* progress fields
C23_AtMostOneRunInProgress ==
    Cardinality({ r \in Runs : InProgress(r) }) <= 1

\* C24: cells are assigned in row-major order (y outer, x inner): at every
\* point exactly the first i cells in row-major order hold placements, the
\* exclusion set of the cell assigned last holds only the tiles of its left
\* and upper neighbours (at most 2), and the placement list is in
\* row-major order
C24_RowMajorOrder ==
    asg.phase \in {"run", "done"} =>
        LET g == asg.settings.gridSize
        IN  /\ \A p \in GridPositions(g) :
                  asg.tileMap[p] # 0 <=> p[2] * g + p[1] < asg.i
            /\ Len(asg.tiles) = asg.i
            /\ \A k \in 1..Len(asg.tiles) :
                  /\ asg.tiles[k].x = (k - 1) % g
                  /\ asg.tiles[k].y = (k - 1) \div g
            /\ asg.i > 0 =>
                  LET x == (asg.i - 1) % g
                      y == (asg.i - 1) \div g
                      near == (IF x > 0 THEN {asg.tileMap[<<x - 1, y>>]}
                                        ELSE {})
                              \cup (IF y > 0 THEN {asg.tileMap[<<x, y - 1>>]}
                                             ELSE {})
                  IN  /\ Len(asg.neighborTiles) <= 2
                      /\ \A k \in 1..Len(asg.neighborTiles) :
                            asg.neighborTiles[k] \in near

\* a grid is finished whose last cell had both a left and an upper
\* neighbour in its exclusion set
C24_Witness ==
    /\ asg.phase = "done"
    /\ asg.settings.gridSize >= 2
    /\ asg.settings.neighborDiversity = "enabled"
    /\ Len(asg.neighborTiles) = 2

\* the usage counts before the last assignment
UsageBeforeLast ==
    LET selected == asg.tiles[asg.i].tile
    IN [f \in Names |-> IF f = selected THEN asg.tileUsageCount[f] - 1
                        ELSE asg.tileUsageCount[f]]

\* the tiles eligible for the cell assigned last: all tiles, or under the
\* diversity constraint the tiles that are not a neighbour's
EligibleForLast ==
    IF asg.settings.neighborDiversity = "enabled"
    THEN NotExcluded(asg.tileMetadata, asg.neighborTiles)
    ELSE Indices(asg.tileMetadata)

\* C25: a tile whose usage count has reached maxUsage is selected only when
\* every candidate eligible for the cell has usage >= maxUsage, and then
\* the selected tile has the minimum usage count among the eligible
\* candidates
C25_OverusedOnlyWhenSaturated ==
    (asg.phase \in {"run", "done"} /\ asg.i > 0) =>
        LET selected == asg.tiles[asg.i].tile
            maxUsage == MaxUsageOf(asg.settings, Len(asg.tileMetadata))
        IN UsageBeforeLast[selected] >= maxUsage =>
               \A k \in 1..Len(EligibleForLast) :
                   LET u == UsageBeforeLast[
                                asg.tileMetadata[EligibleForLast[k]].filename]
                   IN u >= maxUsage /\ UsageBeforeLast[selected] <= u

\* a tile that had reached maxUsage was selected among eligible candidates
C25_Witness ==
    /\ asg.phase \in {"run", "done"} /\ asg.i > 0
    /\ EligibleForLast # <<>>
    /\ UsageBeforeLast[asg.tiles[asg.i].tile]
           >= MaxUsageOf(asg.settings, Len(asg.tileMetadata))

(***************************************************************************)
(* SpecSelect: one call of selectBestTile or of                            *)
(* selectBestTileWithNeighborConstraint on a pool of more than 10 tiles,   *)
(* in the middle of the assignment of a 5 x 5 grid.  call holds the cell,  *)
(* the pool, the usage counts and the neighbours' tiles, then the tiles    *)
(* Math.random() can make the call return, then the tile returned.         *)
(***************************************************************************)
\* the pool: SelectPool tiles of distinct names and distinct brightness
SelectPoolMetadata ==
    [k \in 1..SelectPool |->
        [filename |-> k,
         averageColor |-> [r |-> k % 6, g |-> k \div 6, b |-> 0]]]

\* usage counts in the middle of a run: the first two tiles unused, used
\* once or at maxUsage, six tiles unused or used once, the others used
\* once
SelectUsageCounts ==
    { [k \in 1..SelectPool |->
          IF k \in {1, 2} THEN first[k]
          ELSE IF k \in unused THEN 0 ELSE 1] :
        first \in [{1, 2} -> {0, 1, 4}],
        unused \in SUBSET {3, 4, 5, 9, 10, 11} }

SelectSettings ==
    { [gridSize |-> 5, neighborDiversity |-> d, colorMatching |-> "rgb"] :
        d \in {"enabled", "disabled"} }

InitSelect ==
    /\ InitEngineIdle /\ ClockOff /\ LruOff /\ TileCacheOff /\ ViewerOff
    /\ \E usageCount \in SelectUsageCounts, settings \in SelectSettings,
          neighborTiles \in { <<>>, <<1>>, <<6, 1>> } :
         /\ settings.neighborDiversity = "disabled" => neighborTiles = <<>>
         /\ call = [phase |-> "cell",
                    cell |-> [x |-> 1, y |-> 1,
                              lab |-> rgbToLab([r |-> 0, g |-> 0, b |-> 0])],
                    tileMetadata |-> SelectPoolMetadata,
                    usageCount |-> usageCount,
                    neighborTiles |-> neighborTiles,
                    settings |-> settings]

\* lines 589-610 up to the random draw
SelectCandidates ==
    /\ call.phase = "cell"
    /\ call' = [phase |-> "drawing",
                cell |-> call.cell,
                tileMetadata |-> call.tileMetadata,
                usageCount |-> call.usageCount,
                neighborTiles |-> call.neighborTiles,
                settings |-> call.settings,
                selectable |->
                    IF call.settings.neighborDiversity = "enabled"
                    THEN selectBestTileWithNeighborConstraint(
                             call.cell, call.tileMetadata, call.usageCount,
                             call.neighborTiles, call.settings)
                    ELSE selectBestTile(call.cell, call.tileMetadata,
                                        call.usageCount, call.settings)]
    /\ UNCHANGED callFrame

\* Math.random() decides; the call returns bestCandidate.tile
SelectReturn ==
    /\ call.phase = "drawing"
    /\ \E t \in call.selectable :
         call' = [phase |-> "selected",
                  cell |-> call.cell,
                  tileMetadata |-> call.tileMetadata,
                  usageCount |-> call.usageCount,
                  neighborTiles |-> call.neighborTiles,
                  settings |-> call.settings,
                  selectable |-> call.selectable,
                  selectedTile |-> t]
    /\ UNCHANGED callFrame

NextSelect == SelectCandidates \/ SelectReturn

SpecSelect == InitSelect /\ [][NextSelect]_vars

\* tile j comes before tile k in the order of distance to the cell of call
\* (ties in the order of the pool)
CloserInCall(j, k) ==
    LET d(t) == calculateColorDistance(
                    call.cell.lab,
                    rgbToLab(call.tileMetadata[t].averageColor),
                    call.settings.colorMatching)
    IN d(j) < d(k) \/ (d(j) = d(k) /\ j < k)

\* the first n tiles of the set S in that order
ClosestInCall(S, n) ==
    { k \in S : Cardinality({ j \in S : CloserInCall(j, k) }) < n }

\* the tiles of the restricted set of call: the eligible tiles under
\* maxUsage, or those of least usage when there is none
RestrictedInCall ==
    LET all == 1..Len(call.tileMetadata)
        free == { k \in all :
                    \A p \in 1..Len(call.neighborTiles) :
                        call.tileMetadata[k].filename
                            # call.neighborTiles[p] }
        eligible == IF call.settings.neighborDiversity = "enabled"
                       /\ free # {}
                    THEN free ELSE all
        u(k) == call.usageCount[call.tileMetadata[k].filename]
        under == { k \in eligible :
                     u(k) < MaxUsageOf(call.settings,
                                       Len(call.tileMetadata)) }
    IN IF under # {} THEN under
       ELSE { k \in eligible : \A j \in eligible : u(k) <= u(j) }

\* the share of the tied candidates the draw is made from, in tenths
ShareInCall ==
    LET all == 1..Len(call.tileMetadata)
    IN IF call.settings.neighborDiversity = "enabled"
          /\ \E k \in all : \A p \in 1..Len(call.neighborTiles) :
                call.tileMetadata[k].filename # call.neighborTiles[p]
       THEN 4 ELSE 3

\* C26: the tile selected has the lowest usage count among the (up to) 10
\* closest candidates of the restricted set and is, among the candidates
\* tied at that usage, one of the ceil(30%) closest (ceil(40%) under the
\* neighbour constraint); a single candidate of lowest usage is chosen
\* whatever the draw
C26_LeastUsedAmongClosest ==
    call.phase \in {"drawing", "selected"} =>
        LET u(k) == call.usageCount[call.tileMetadata[k].filename]
            top == ClosestInCall(RestrictedInCall, 10)
            tied == { k \in top : \A j \in top : u(k) <= u(j) }
            share == (Cardinality(tied) * ShareInCall + 9) \div 10
        IN  /\ call.selectable # {}
            /\ call.selectable \subseteq ClosestInCall(tied, share)
            /\ Cardinality(tied) = 1 => call.selectable = tied
            /\ call.phase = "selected" =>
                  call.selectedTile \in call.selectable

\* a tile was returned although a tile beyond the 10 closest of the
\* restricted set had a lower usage count, after a draw among several
C26_Witness ==
    /\ call.phase = "selected"
    /\ Cardinality(call.selectable) > 1
    /\ \E k \in RestrictedInCall :
          /\ k \notin ClosestInCall(RestrictedInCall, 10)
          /\ call.usageCount[k] < call.usageCount[call.selectedTile]

C28_PausedOnlyWhileRunning ==
    isPaused => (isProcessing /\ \E r \in Runs : InProgress(r))

(***************************************************************************)
(* The end of a run: the finally block of generateMosaic and cleanup.      *)
(***************************************************************************)
\* the step that ends run r: its record reaches "done" by finalizeResult
\* (completion) or by Unwind (an error or a cancellation)
RunEnds(r) == run[r].pc # "done" /\ run'[r].pc = "done"

AssignReturned ==
    /\ asg.phase = "done"
    /\ out = <<>>
    /\ Deliver(<<sendComplete(1)>>)
    /\ UNCHANGED <<isProcessing, isPaused, isCancelled, currentStage,
                   stageProgress, totalProgress, tileCacheEmpty, run,
                   userPaused, runFrame>>

\* generateMosaicGrid threw: the catch block of generateMosaic (lines
\* 297-300)
AssignThrown ==
    /\ asg.phase = "error"
    /\ out = <<>>
    /\ Deliver(IF ~isCancelled THEN <<sendError(1)>> ELSE <<>>)
    /\ UNCHANGED <<isProcessing, isPaused, isCancelled, currentStage,
                   stageProgress, totalProgress, tileCacheEmpty, run,
                   userPaused, runFrame>>

NextOutcome == AssignCell \/ AssignDone \/ AssignReturned \/ AssignThrown

SpecOutcome == InitAssign /\ [][NextOutcome]_vars

\* the types of the messages the run has posted
PostedTypes == { out[k].type : k \in 1..Len(out) }

\* C30: with an empty tile pool (the grid always has a cell) and
\* neighborDiversity enabled or disabled, the run never assigns a cell and
\* never leaves generateMosaicGrid by its return, the only message it posts
\* is 'error', and it posts it once the selection of the first cell threw;
\* it never posts 'complete'
C30_EmptyPoolEndsInError ==
    (asg.tileMetadata = <<>>
        /\ asg.settings.neighborDiversity \in {"enabled", "disabled"}) =>
        /\ asg.phase \in {"run", "error"}
        /\ asg.i = 0 /\ asg.tiles = <<>>
        /\ PostedTypes \subseteq {"error"}
        /\ "complete" \notin PostedTypes
        /\ (out # <<>> => asg.phase = "error")

\* a run with an empty pool and the neighbour constraint enabled has posted
\* 'error' from the first cell of the grid
C30_Witness ==
    /\ asg.tileMetadata = <<>>
    /\ asg.settings.neighborDiversity = "enabled"
    /\ asg.settings.gridSize >= 1
    /\ asg.phase = "error"
    /\ asg.i = 0
    /\ PostedTypes = {"error"}

(***************************************************************************)
(* SpecGenerate: the main thread's handleGenerateClick with its await of   *)
(* processFilesToImageDataWithProgress, the clicks on Pause and Cancel,    *)
(* and the worker.  generation holds the number of clicks on Generate      *)
(* (count; the g-th click posts the g-th generate_mosaic, which the worker *)
(* runs as activation g), the conversion in progress (converting, files,   *)
(* i), the percentage last passed to updateProgressDisplay by the main     *)
(* thread itself (shown) and, as history, whether these percentages ever   *)
(* decreased within one click (monotone), the percentage shown when each   *)
(* generate_mosaic was posted (atPost), the clicks whose 'cancel' message  *)
(* is still queued (cancelQueue) and the clicks whose 'cancel' message the *)
(* worker handled before it posted the 'complete' of their generation      *)
(* (stopped).  A click on Generate while the conversion of the previous    *)
(* click is still running is left out.                                     *)
(***************************************************************************)
\* updateProgressDisplay({progress: p, ...}) by the main thread
updateProgressDisplay(g, p) ==
    [g EXCEPT !.monotone = g.monotone /\ g.shown <= p, !.shown = p]

\* Math.round(a / b) for a >= 0, b > 0
Round(a, b) == (2 * a + b) \div (2 * b)

\* processFilesToImageDataWithProgress: batchSize (line 1817)
conversionBatchSize(totalFiles) == Min(10, Max(1, totalFiles \div 20))

\* the generate_mosaic messages of SpecGenerate: a grid of one cell and
\* one tile file
ClickMessages ==
    { m \in GenerateMessages :
        m.gridSize = 1 /\ m.files = [n |-> 1, bad |-> {}] }

InitGenerate ==
    /\ InitWorker /\ InitEnv /\ InitAppThread /\ InitAsgIdle /\ UnitsOff
    /\ generation = [phase |-> "app", count |-> 0, converting |-> FALSE,
                     files |-> 0, i |-> 0, shown |-> 0, monotone |-> TRUE,
                     atPost |-> <<>>, cancelQueue |-> <<>>, stopped |-> {}]

\* handleGenerateClick (main.js, lines 509-552) up to its await: progress
\* 0, 5 and 10
GenerateClick ==
    /\ ~appIsProcessing
    /\ ~generation.converting
    /\ generation.count < MaxRuns
    /\ appIsProcessing' = TRUE
    /\ \E m \in ClickMessages :
         generation' =
            updateProgressDisplay(
              updateProgressDisplay(
                [generation EXCEPT !.count = @ + 1, !.converting = TRUE,
                                   !.files = m.files.n, !.i = 0,
                                   !.shown = 0],
                5),
              10)
    /\ UNCHANGED <<workerVars, controls, pauseBtnText, inbox, lastClick, asg,
                   unitVars>>

\* processFilesToImageDataWithProgress (main.js, lines 1818-1860): one
\* batch, its progress and the setTimeout it awaits
ConvertBatch ==
    /\ generation.converting
    /\ generation.i < generation.files
    /\ LET totalFiles == generation.files
           processedCount ==
               Min(generation.i + conversionBatchSize(totalFiles), totalFiles)
           progress == 10 + Round(processedCount * 30, totalFiles)
       IN generation' =
            updateProgressDisplay(
              [generation EXCEPT
                 !.i = @ + conversionBatchSize(totalFiles)],
              progress)
    /\ UNCHANGED <<workerVars, controls, appIsProcessing, pauseBtnText, inbox,
                   lastClick, asg, unitVars>>

\* the conversion returns: progress 40 (lines 1863-1869), then progress 45
\* and worker.postMessage of handleGenerateClick (lines 554-574), which
\* does not read state.isProcessing again
ConvertDone ==
    /\ generation.converting
    /\ generation.i >= generation.files
    /\ LET g == updateProgressDisplay(
                    updateProgressDisplay(generation, 40), 45)
       IN generation' = [g EXCEPT !.converting = FALSE,
                                  !.atPost = Append(@, g.shown)]
    /\ \E m \in ClickMessages :
         m.files.n = generation.files /\ PostToWorker("generate", m)
    /\ UNCHANGED <<workerVars, controls, appIsProcessing, pauseBtnText, asg,
                   unitVars>>

\* handleCancelClick (main.js, lines 761-766) during the generation of the
\* last click on Generate
CancelClick ==
    /\ appIsProcessing
    /\ controls < MaxControls
    /\ controls' = controls + 1
    /\ \E m \in ControlMessages : m.type = "cancel" /\ PostToWorker("cancel", m)
    /\ appIsProcessing' = FALSE
    /\ generation' = [generation EXCEPT
                         !.cancelQueue = Append(@, generation.count)]
    /\ UNCHANGED <<workerVars, pauseBtnText, asg, unitVars>>

\* self.onmessage (lines 1227-1229) with the oldest posted message
onmessage ==
    /\ inbox # <<>>
    /\ handleMessage(Head(inbox))
    /\ inbox' = Tail(inbox)
    /\ generation' =
         IF Head(inbox).type # "cancel" THEN generation
         ELSE LET g == Head(generation.cancelQueue)
              IN [generation EXCEPT
                    !.cancelQueue = Tail(@),
                    !.stopped = IF run[g].complete = 0
                                THEN @ \cup {g} ELSE @]
    /\ UNCHANGED <<controls, lastClick, asg, unitVars>>

NextGenerate ==
    \/ GenerateClick
    \/ ConvertBatch
    \/ ConvertDone
    \/ CancelClick
    \/ handlePauseClick
    \/ onmessage
    \/ Continue

SpecGenerate == InitGenerate /\ [][NextGenerate]_vars

\* C31: the worker never posts 'complete' (which the main thread handles
\* with handleGenerationComplete, displaying the result) for a generation
\* the user clicked Cancel for, whether the click came before or after the
\* generate_mosaic message of the generation was posted; stated for the
\* clicks whose 'cancel' message reached the worker before the 'complete'
C31_CancelledNeverDisplayed ==
    generation.phase = "app" =>
        \A g \in generation.stopped : run[g].complete = 0

\* C32: within one generation the percentages passed to
\* updateProgressDisplay never decrease: not among those of the main
\* thread (0, 5, 10..40, 45), not from the last of these to the progress
\* events of the generation's run, and not among those events
C32_DisplayedProgressMonotone ==
    generation.phase = "app" =>
        /\ generation.monotone
        /\ \A g \in 1..Len(generation.atPost) :
             run[g].pc # "idle" =>
                /\ FracLeq(FracOfInt(generation.atPost[g]),
                           run[g].lastProgress)
                /\ run[g].monotone

(***************************************************************************)
(* SpecResume: the worker of Spec on grids of one cell, with the           *)
(* scheduling the claim assumes: a run that can take a step (a settled     *)
(* await, or the setTimeout of the polling loop of checkPauseCancel)       *)
(* eventually takes it.                                                    *)
(***************************************************************************)
ResumeMessages ==
    { m \in GenerateMessages : m.gridSize = 1 /\ m.files.n <= 1 }

ReceiveGenerateResume ==
    /\ \A r \in Runs : ~InProgress(r)
    /\ \E m \in ResumeMessages : handleMessage(m)
    /\ UNCHANGED runFrame

NextResume == ReceiveGenerateResume \/ ReceiveControl \/ Continue

SpecResume == Init /\ [][NextResume]_vars /\ WF_vars(Continue)

\* run r sits in the polling loop of checkPauseCancel and the flags say
\* that a 'resume' was handled and no 'cancel'
ResumedInLoop(r) == run[r].waiting /\ ~isPaused /\ ~isCancelled

\* run r has ended with 'complete' or 'error'
TerminalEvent(r) ==
    run[r].pc = "done" /\ run[r].complete + run[r].error >= 1

\* C33: a run blocked in the polling loop when 'resume' was handled leaves
\* the loop and goes on to post 'complete' or 'error', unless the worker
\* handles a 'cancel' or a new 'pause' first
C33_ResumeLeadsToTerminal ==
    \A r \in Runs :
        ResumedInLoop(r)
            ~> (TerminalEvent(r) \/ run[r].cancelSeen \/ isPaused)

\* a run is in the polling loop and 'resume' has just been handled
C33_Witness ==
    \E r \in Runs :
        /\ ResumedInLoop(r)
        /\ InProgress(r)
        /\ Len(out) = 1 /\ out[1].type = "resumed"

(***************************************************************************)
(* SpecManager: the ProgressManager of the main thread (src/unnamed/       *)
(* part_003), its start, pause, resume, complete and the time that         *)
(* passes.  clock holds Date.now() (now, always positive), the fields of   *)
(* the manager (startTime and pausedTime are 0 where the code has null or  *)
(* 0) and, as history, the time that passed inside paused intervals since  *)
(* start() (pausedFor) and calculateElapsedTime() at the pause() that      *)
(* opened the present interval (elapsedAtPause).                           *)
(***************************************************************************)
\* calculateElapsedTime (part_003, lines 175-183)
calculateElapsedTime(c) ==
    IF c.startTime = 0 THEN 0
    ELSE LET currentTime == c.now
             pausedTime == IF c.isPaused THEN currentTime - c.pausedTime
                           ELSE 0
         IN currentTime - c.startTime - c.totalPausedTime - pausedTime

\* start (part_003, lines 58-64)
start(c) ==
    [c EXCEPT !.isActive = TRUE, !.isPaused = FALSE, !.startTime = c.now,
              !.pausedTime = 0, !.totalPausedTime = 0,
              !.pausedFor = 0, !.elapsedAtPause = 0]

\* pause (part_003, lines 134-145)
pause(c) ==
    IF ~c.isActive \/ c.isPaused THEN c
    ELSE [c EXCEPT !.isPaused = TRUE, !.pausedTime = c.now,
                   !.elapsedAtPause = calculateElapsedTime(c)]

\* A faulty variant of resume that forgets the interval it closes.
\* C34_ElapsedExcludesPausedIntervals must tell it from the code.
resumeForgettingInterval(c) ==
    IF ~c.isActive \/ ~c.isPaused THEN c
    ELSE [c EXCEPT !.isPaused = FALSE, !.pausedTime = 0]

\* resume (part_003, lines 148-160)
resume(c) ==
    IF ~c.isActive \/ ~c.isPaused THEN c
    ELSE [c EXCEPT !.isPaused = FALSE,
                   !.totalPausedTime = @ + (c.now - c.pausedTime),
                   !.pausedTime = 0]

\* complete (part_003, lines 105-110)
complete(c) == [c EXCEPT !.isActive = FALSE]

\* the constructor (part_003, lines 5-12), at a time between 1 and 2
InitManager ==
    /\ InitEngineIdle /\ CallOff /\ LruOff /\ TileCacheOff /\ ViewerOff
    /\ \E t \in 1..2 :
         clock = [phase |-> "manager", now |-> t, isActive |-> FALSE,
                  isPaused |-> FALSE, startTime |-> 0, pausedTime |-> 0,
                  totalPausedTime |-> 0, pausedFor |-> 0,
                  elapsedAtPause |-> 0, calls |-> 0]

\* time passes
ManagerTick ==
    /\ clock.phase = "manager"
    /\ clock.now < MaxTime + 2
    /\ clock' = [clock EXCEPT
                   !.now = @ + 1,
                   !.pausedFor = IF clock.isPaused THEN @ + 1 ELSE @]
    /\ UNCHANGED clockFrame

\* handleGenerateClick calls start() when no generation is in progress
ManagerStart ==
    /\ clock.phase = "manager"
    /\ ~clock.isActive
    /\ clock' = start(clock)
    /\ UNCHANGED clockFrame

ManagerPause ==
    /\ clock.phase = "manager"
    /\ clock.calls < MaxTime
    /\ clock' = [pause(clock) EXCEPT !.calls = @ + 1]
    /\ UNCHANGED clockFrame

ManagerResume ==
    /\ clock.phase = "manager"
    /\ clock.calls < MaxTime
    /\ clock' = [resume(clock) EXCEPT !.calls = @ + 1]
    /\ UNCHANGED clockFrame

ManagerComplete ==
    /\ clock.phase = "manager"
    /\ clock.isActive
    /\ clock' = complete(clock)
    /\ UNCHANGED clockFrame

NextManager ==
    \/ ManagerTick \/ ManagerStart \/ ManagerPause \/ ManagerResume
    \/ ManagerComplete

SpecManager == InitManager /\ [][NextManager]_vars

\* C34: once started, calculateElapsedTime() is the time since start()
\* less the time spent inside paused intervals; inside a paused interval
\* it keeps the value it had at the pause() that opened the interval; a
\* pause() while paused and a resume() while running leave the manager as
\* it is
C34_ElapsedExcludesPausedIntervals ==
    (clock.phase = "manager" /\ clock.startTime # 0) =>
        /\ calculateElapsedTime(clock)
              = clock.now - clock.startTime - clock.pausedFor
        /\ clock.isPaused =>
              calculateElapsedTime(clock) = clock.elapsedAtPause
        /\ clock.isPaused => pause(clock) = clock
        /\ ~clock.isPaused => resume(clock) = clock

\* the manager runs again after a paused interval during which time passed
C34_Witness ==
    /\ clock.phase = "manager"
    /\ clock.isActive /\ ~clock.isPaused
    /\ clock.pausedFor > 0
    /\ clock.totalPausedTime = clock.pausedFor
    /\ calculateElapsedTime(clock) > 0

(***************************************************************************)
(* SpecProgress: setStage and updateStageProgress on every stage and on    *)
(* stage progresses below 0, inside 0..100 and above 100, whole and        *)
(* fractional.  call holds the stage and the progress drawn and the        *)
(* fields the two methods leave.                                           *)
(***************************************************************************)
\* progress values: (i + 1) / n * 100 and values outside 0..100
ProgressSamples ==
    { Frac(n, d) : n \in {-50, -1, 0, 1, 33, 50, 99, 100, 101, 250},
                   d \in {1, 3, 7} }

InitProgress ==
    /\ InitEngineIdle /\ ClockOff /\ LruOff /\ TileCacheOff /\ ViewerOff
    /\ \E k \in 1..Len(StageOrder), p \in ProgressSamples :
         call = [phase |-> "drawn", stage |-> StageOrder[k], p |-> p,
                 stageProgress |-> FracOfInt(0),
                 totalProgress |-> FracOfInt(0)]

\* setStage (lines 1101-1105)
ProgressSetStage ==
    /\ call.phase = "drawn"
    /\ call' = [call EXCEPT
                  !.phase = "staged",
                  !.stageProgress = FracOfInt(0),
                  !.totalProgress =
                      updateTotalProgress(call.stage, FracOfInt(0))]
    /\ UNCHANGED callFrame

\* updateStageProgress (lines 1107-1110)
ProgressUpdateStage ==
    /\ call.phase = "staged"
    /\ call' = [call EXCEPT
                  !.phase = "updated",
                  !.stageProgress = ClampProgress(call.p),
                  !.totalProgress =
                      updateTotalProgress(call.stage, ClampProgress(call.p))]
    /\ UNCHANGED callFrame

NextProgress == ProgressSetStage \/ ProgressUpdateStage

SpecProgress == InitProgress /\ [][NextProgress]_vars

\* the sum of the weights of the stages before each stage, in the order
\* LOADING_SOURCE, LOADING_TILES, ANALYZING_COLORS, BUILDING_INDEX,
\* GENERATING_MOSAIC, OPTIMIZING, FINALIZING
WeightBefore ==
    [LOADING_SOURCE |-> 0, LOADING_TILES |-> 10, ANALYZING_COLORS |-> 30,
     BUILDING_INDEX |-> 45, GENERATING_MOSAIC |-> 55, OPTIMIZING |-> 95,
     FINALIZING |-> 98]

\* the stageProgress p clamped to 0..100
ClampedTo100(p) ==
    IF p.n <= 0 THEN FracOfInt(0)
    ELSE IF p.n >= 100 * p.d THEN FracOfInt(100) ELSE p

\* C35: after setStage(s) and after updateStageProgress(p), stageProgress
\* is p clamped to 0..100 (0 after setStage) and totalProgress is the sum
\* of the weights of the stages before s plus weight(s) * stageProgress /
\* 100; the weights sum to 100 and totalProgress is 100 exactly for
\* FINALIZING at 100
C35_TotalProgressIsWeightedSum ==
    call.phase \in {"staged", "updated"} =>
        LET sp == call.stageProgress
            total == call.totalProgress
            weight == processingStages[call.stage]
        IN /\ sp = (IF call.phase = "staged" THEN FracOfInt(0)
                    ELSE ClampedTo100(call.p))
           /\ total.n * 100 * sp.d
                = total.d * (WeightBefore[call.stage] * 100 * sp.d
                             + weight * sp.n)
           /\ WeightBefore["FINALIZING"] + processingStages["FINALIZING"]
                = 100
           /\ (total = FracOfInt(100))
                <=> (call.stage = "FINALIZING" /\ sp = FracOfInt(100))

\* a stage in the middle of the order at a fractional progress
C35_Witness ==
    /\ call.phase = "updated"
    /\ call.stage = "GENERATING_MOSAIC"
    /\ call.stageProgress = Frac(100, 3)
    /\ call.totalProgress = Frac(205, 3)

(***************************************************************************)
(* SpecResize: one pixel of the buffer drawTileToCanvas builds for a tile  *)
(* (lines 840-860).  tile.imageData is the Uint16Array compressImageData   *)
(* made of the 64 x 64 thumbnail of processFileToImageData, row by row;    *)
(* decompressImageData(compressed, size) writes entry i of it to the four  *)
(* bytes at i * 4 of a new size x size ImageData, and a write past the     *)
(* end of the Uint8ClampedArray is ignored.  call holds the size, the      *)
(* pixel (x, y) of the buffer, whether the loop wrote it and the pixel of  *)
(* the thumbnail it was decoded from.                                      *)
(***************************************************************************)
\* the values of the tile-size slider (index.html, line 93)
TileSizes == { 8 * k : k \in 1..8 }

\* decompressImageData (lines 1061-1078): the entry of `compressed` that
\* lands on pixel (x, y) of the size x size ImageData, -1 when there is none
decompressedEntry(size, x, y) ==
    LET i == y * size + x
    IN IF i < ThumbnailSize * ThumbnailSize THEN i ELSE -1

InitResize ==
    /\ InitEngineIdle /\ ClockOff /\ LruOff /\ TileCacheOff /\ ViewerOff
    /\ \E size \in TileSizes :
         \E x \in {0, 1, size \div 2, size - 1},
            y \in {0, 1, size \div 2, size - 1} :
           call = [phase |-> "pixel", size |-> size, x |-> x, y |-> y,
                   alpha |-> 0, sx |-> 0, sy |-> 0]

\* drawTileToCanvas on a cache miss: decompressImageData and putImageData
ResizeDecode ==
    /\ call.phase = "pixel"
    /\ LET i == decompressedEntry(call.size, call.x, call.y)
       IN call' = [call EXCEPT
                     !.phase = "decoded",
                     !.alpha = IF i >= 0 THEN 255 ELSE 0,
                     !.sx = IF i >= 0 THEN i % ThumbnailSize ELSE 0,
                     !.sy = IF i >= 0 THEN i \div ThumbnailSize ELSE 0]
    /\ UNCHANGED callFrame

NextResize == ResizeDecode

SpecResize == InitResize /\ [][NextResize]_vars

\* thumbnail coordinate s lies in the block that maps to coordinate c of
\* the buffer under uniform scaling by size / 64
InBlock(s, c, size) ==
    /\ c * ThumbnailSize <= (s + 1) * size
    /\ s * size <= (c + 1) * ThumbnailSize

\* C36: every pixel (x, y) of the tileSize x tileSize buffer is opaque and
\* is decoded from a pixel of the thumbnail inside the block that maps to
\* (x, y) under uniform scaling by tileSize / 64
C36_TileResizedToTileSize ==
    call.phase = "decoded" =>
        /\ call.alpha = 255
        /\ InBlock(call.sx, call.x, call.size)
        /\ InBlock(call.sy, call.y, call.size)

\* C37: set returns for every key and value: its while loop never spins on
\* a cache evictLRU cannot shrink (a value larger than maxMemory, maxSize
\* 0, a falsy oldest key)
C37_SetTerminates ==
    lru.phase # "off" => lru.phase = "ready"

\* C38: a set on a key the cache holds, whose new value fits the byte
\* budget once the old value is gone, removes no entry of another key,
\* also when the cache holds maxSize entries
C38_ReplaceKeepsOtherEntries ==
    (lru.phase = "ready" /\ lru.lastSet.present /\ lru.lastSet.fits)
        => ~lru.lastSet.lost

\* C39: after every drawTileToCanvas and every checkMemoryPressure the
\* worker's tile cache holds at most maxCacheSize entries
C39_TileCacheWithinMaxCacheSize ==
    tileCache.phase = "run" => Len(tileCache.keys) <= maxCacheSize

\* a draw has stored a canvas in a full cache: the cache still holds
\* maxCacheSize entries and its oldest one is gone
C39_Witness ==
    /\ tileCache.phase = "run"
    /\ Len(tileCache.keys) = maxCacheSize
    /\ tileCache.evicted # 0
    /\ ~tileCache.lastHit
    /\ tileCache.lastKey = tileCache.keys[maxCacheSize]

(***************************************************************************)
(* SpecChunks: the extractTileMetadata tasks of processTileImages (lines   *)
(* 356-414) and processTileBatchInParallel (lines 427-460) as they start   *)
(* and settle.  The files are numbered 1..n; extractTileMetadata rejects   *)
(* for those in bad and the task's catch turns that into a result.  call   *)
(* holds n, bad, the batch (batchIndex) and the offset i of the chunk      *)
(* loop, the tasks started and not yet settled (inFlight) and, as          *)
(* history, the files of the chunk started last, the largest number of     *)
(* tasks in flight so far and whether a chunk was started while a task of  *)
(* an earlier chunk was in flight.                                         *)
(***************************************************************************)
\* the files of batch b (0-based) of n files from offset i on, at most
\* concurrency of them: batch.slice(i, i + concurrency)
ChunkFiles(n, b, i, concurrency) ==
    LET batch == BatchFiles(n, b)
        first == b * MemoryBatchSize + 1 + i
    IN { f \in batch : first <= f /\ f < first + concurrency }

\* A faulty variant of chunkSettled: the loop goes on as soon as one task
\* has settled.  C40_BoundedTasksChunkByChunk must tell it from the code.
chunkRaced(c) ==
    c.inFlight # c.chunk \/ c.chunk = {}

\* `await executeInParallel(chunk)` (line 456) returns: Promise.all of the
\* tasks of the chunk has resolved
chunkSettled(c) ==
    c.inFlight = {}

InitChunks ==
    /\ InitEngineIdle /\ ClockOff /\ LruOff /\ TileCacheOff /\ ViewerOff
    /\ \E n \in {0, 1, 5, MaxParallel + 1, MemoryBatchSize + 1},
          bad \in {{}, {1}, {1, 2}} :
         call = [phase |-> "chunks", n |-> n, bad |-> bad,
                 batchIndex |-> 0, i |-> 0, inFlight |-> {}, chunk |-> {},
                 maxInFlight |-> 0, overlapped |-> FALSE]

\* one turn of the chunk loop (lines 453-455): files.map starts one task
\* per file of the chunk
ChunkStart ==
    /\ call.phase = "chunks"
    /\ call.batchIndex < createBatches(call.n)
    /\ call.i < Cardinality(BatchFiles(call.n, call.batchIndex))
    /\ chunkSettled(call)
    /\ LET concurrency == Min(MaxParallel, call.n)
           chunk == ChunkFiles(call.n, call.batchIndex, call.i, concurrency)
           inFlight == call.inFlight \cup chunk
       IN call' = [call EXCEPT
                     !.i = @ + concurrency,
                     !.chunk = chunk,
                     !.inFlight = inFlight,
                     !.maxInFlight = Max(@, Cardinality(inFlight)),
                     !.overlapped = @ \/ call.inFlight # {}]
    /\ UNCHANGED callFrame

\* a task settles: extractTileMetadata returned (lines 434-439)
TaskSucceed ==
    /\ call.phase = "chunks"
    /\ \E f \in call.inFlight \ call.bad :
         call' = [call EXCEPT !.inFlight = @ \ {f}]
    /\ UNCHANGED callFrame

\* a task settles: extractTileMetadata threw and the catch of the task
\* made a result of the error (lines 440-446)
TaskFail ==
    /\ call.phase = "chunks"
    /\ \E f \in call.inFlight \cap call.bad :
         call' = [call EXCEPT !.inFlight = @ \ {f}]
    /\ UNCHANGED callFrame

\* the chunk loop is over and the last chunk has settled:
\* processTileBatchInParallel returns and the batch loop goes on
ChunksBatchDone ==
    /\ call.phase = "chunks"
    /\ call.batchIndex < createBatches(call.n)
    /\ call.i >= Cardinality(BatchFiles(call.n, call.batchIndex))
    /\ call.inFlight = {}
    /\ call' = [call EXCEPT !.batchIndex = @ + 1, !.i = 0, !.chunk = {}]
    /\ UNCHANGED callFrame

\* return tileMetadata (line 414)
ChunksReturn ==
    /\ call.phase = "chunks"
    /\ call.batchIndex = createBatches(call.n)
    /\ call' = [call EXCEPT !.phase = "returned"]
    /\ UNCHANGED callFrame

NextChunks ==
    \/ ChunkStart \/ TaskSucceed \/ TaskFail \/ ChunksBatchDone
    \/ ChunksReturn

SpecChunks == InitChunks /\ [][NextChunks]_vars

\* C40: at most min(12, number of tiles) extractTileMetadata tasks are in
\* flight at any moment, and no chunk is started while a task of an
\* earlier chunk is in flight
C40_BoundedTasksChunkByChunk ==
    call.phase \in {"chunks", "returned"} =>
        /\ Cardinality(call.inFlight) <= Min(12, call.n)
        /\ call.maxInFlight <= Min(12, call.n)
        /\ ~call.overlapped
        /\ call.inFlight \subseteq call.chunk

\* the second chunk of a batch is in flight, all its tasks unsettled,
\* after a first chunk in which a task failed
C40_Witness ==
    /\ call.phase = "chunks"
    /\ call.n = MaxParallel + 1
    /\ call.bad = {1}
    /\ call.i > MaxParallel
    /\ call.inFlight = {MaxParallel + 1}
    /\ call.maxInFlight = MaxParallel

=============================================================================
